---- MODULE Spec2Model ----
(***************************************************************************)
(* Model of the EyeMouse gaze-to-action pipeline.                          *)
(*                                                                         *)
(*   BlinkDetector   (src/src/core/blink_detector.py)                      *)
(*   Calibrator      (src/src/core/calibration.py)                         *)
(*   MouseController (src/src/core/mouse_controller.py)                    *)
(*   EyeTracker      (src/src/core/eye_tracker.py)                         *)
(*   MainWindow      (src/src/gui/main_window.py), the handlers            *)
(*   CameraWorker    (src/src/gui/main_window.py), the frame loop          *)
(*                                                                         *)
(* Units.  The wall clock (time.time()) is an integer number of ticks; it   *)
(* never runs backwards.                                                   *)
(* EAR values and thresholds are integers in hundredths (0.21 -> 21).      *)
(* Gaze coordinates are integers in hundredths of the normalised range     *)
(* (0.5 -> 50).  A mean sum/len is kept as the pair <<sum, len>>.          *)
(* Transform matrix entries are integers in units of 1/Unit, cursor         *)
(* positions integers in units of 1/SubPx pixel, the EyeTracker's smoothed  *)
(* positions integers in units of 1/PosUnit, landmark coordinates integers  *)
(* in units of 1/PxUnit pixel.                                              *)
(***************************************************************************)
EXTENDS Integers, Sequences, FiniteSets, TLC

\* ------------------------------------------------------------------ bounds
\* Wall-clock reading when the objects are constructed (time.time() is far
\* larger than any cooldown, so the first detect() is never suppressed).
StartTime == 3
\* Last wall-clock reading the model explores.
MaxTime == 5
\* Largest wall-clock advance between two reads of time.time().
MaxDt == 1
\* Largest closed-frame counter value the model explores.
MaxCount == 3
\* consecutive_frames is drawn from 1..MaxFrames.
MaxFrames == 2
\* cooldown is drawn from 1..MaxCooldown ticks.
MaxCooldown == 2
\* Raw EAR of a shut eye and of an open eye, in hundredths.
EarShut == 10
EarOpen == 40

\* Last wall-clock reading the calibrator model explores.
MaxCalTime == 11
\* Largest sample buffer the calibrator model explores.
MaxSamples == 21

\* A float64 matrix entry is kept as an integer number of 1/Unit (2^20): the
\* resolution below which the model does not look.
Unit == 1048576

\* smoothing_samples is drawn from 1..MaxSmoothing.
MaxSmoothing == 2

\* Largest number of frames with a face the tracker model explores.
MaxTracked == 9
\* Largest number of changes of the active region the tracker model explores.
MaxSettings == 1
\* position computations next to a set_sensitivity call of the other thread
MaxComputed == 3
\* Largest number of emitted signals waiting for their handler.
MaxQueue == 2

\* ------------------------------------------------------- program constants
\* BlinkDetector.__init__: ear_threshold = 0.21
DefaultEarThreshold == 21
\* BlinkDetector._calculate_ear: return 0.5, in hundredths
NeutralEar == 50
\* BlinkDetector.__init__: smoothing_samples = 3 (deque maxlen)
SmoothingSamples == 3
\* Calibrator.__init__: hold_duration = 2.0 (one tick is one second here)
HoldDuration == 2
\* Calibrator.__init__: margin_percent = 0.12, in hundredths
MarginPercent == 12
\* Calibrator.__init__: initial_tolerance = 0.35, in hundredths
InitialTolerance == 35
\* Calibrator.__init__: min_samples = 20
MinSamples == 20
\* _finalize(): fewer than 4 collected points fit nothing
MinPoints == 4
\* CalibrationConfig.points_count = 9
DefaultPointsCount == 9
\* load(): dtype=np.float32, a significand of 24 bits
Mantissa32 == 24
\* MouseConfig.dead_zone = 0.015, in thousandths
DefaultDeadZone == 15
\* EyeTracker._base_min_x, _base_min_y = 0.3 and _base_max_x, _base_max_y =
\* 0.7, in hundredths
BaseMin == 30
BaseMax == 70
\* EyeTracker.__init__: _smooth_factor = 0.12, in hundredths
SmoothFactor == 12
\* EyeTracker.__init__: _history_size = 8
HistorySize == 8
\* set_sensitivity(): max(1.0, min(10.0, value))
MaxSensitivity == 10
\* the screen the Calibrator is constructed for, in pixels
ScreenWidth == 200
ScreenHeight == 100

VARIABLES
    \* wall clock: the value the next time.time() call returns is now + d
    now,
    \* ---- BlinkDetector fields
    ear_threshold, consecutive_frames, cooldown,
    left_closed_count, right_closed_count,
    left_was_closed, right_was_closed,
    last_blink_time,
    left_ear_buffer, right_ear_buffer,
    left_ear, right_ear,
    \* ---- BlinkDetector.detect: locals and return value of the latest call
    left_closed, right_closed, blink,
    \* ---- observers of the detect() call sequence (no program state)
    scen, scenN, bothRun, bothDue, leftDirty, rightDirty, eventTimes,
    \* ---- Calibrator fields
    points_count,
    collected_points, gaze_samples, on_target_time, last_update_time,
    gaze_quality, is_active, current_index, transform,
    \* ---- Calibrator.update: return value of the latest call since the
    \* latest start() or stop()
    update_ret,
    \* ---- observer: how the latest calibration run stands
    run,
    \* ---- the calibration file on disk
    disk,
    \* ---- Calibrator.save, load, transform_gaze: the latest call and what it
    \* returned (load: since the latest start())
    save_ret, load_ret, gaze_ret,
    \* ---- MouseController fields
    enabled, sensitivity, dead_zone, acceleration_curve, smoothing_samples,
    x_buffer, y_buffer, last_x, last_y,
    \* ---- observers: the latest call into the MouseController, and the requests
    \* that call made to pyautogui
    call, requests,
    \* ---- observer: where the call sequence stands in "moves, disable,
    \* enable, first move"
    mscen,
    \* ---- EyeTracker fields; gaze_data is what the latest process() returned
    min_x, max_x, min_y, max_y, tracker_sensitivity,
    smooth_x, smooth_y, history_x, history_y, gaze_data,
    \* ---- observers: frames in which process() found a face, set_sensitivity
    \* calls made so far
    tracked, settings,
    \* ---- MainWindow: config.mouse.sensitivity, and how the latest
    \* _on_sensitivity_change ended
    config_sensitivity, settings_ret,
    \* ---- signals emitted by the CameraWorker and not yet handled by the
    \* MainWindow, oldest first; observer: the latest worker iteration
    signals, iteration,
    \* ---- arguments and results of the functions applied on their own
    ear_in, ear_out, fit_in, fit_out, grid_in, grid_out,
    \* ---- the control thread inside set_sensitivity (0: outside; k: the next
    \* write is the k-th bound) and the worker thread inside _calculate_position
    \* (0: outside; k: the next read is the k-th bound), with the bounds read
    set_pc, set_bounds, calc_pc, calc_read

blinkVars == <<ear_threshold, consecutive_frames, cooldown,
               left_closed_count, right_closed_count,
               left_was_closed, right_was_closed, last_blink_time,
               left_ear_buffer, right_ear_buffer, left_ear, right_ear,
               left_closed, right_closed, blink>>
blinkObs == <<scen, scenN, bothRun, bothDue, leftDirty, rightDirty, eventTimes>>

calVars == <<points_count, collected_points, gaze_samples, on_target_time,
             last_update_time, gaze_quality, is_active, current_index, transform>>
calObs == <<update_ret, run>>
storeVars == <<disk, save_ret, load_ret, gaze_ret>>

mouseVars == <<enabled, sensitivity, dead_zone, acceleration_curve,
               smoothing_samples, x_buffer, y_buffer, last_x, last_y>>
mouseObs == <<call, requests, mscen>>

trackerVars == <<min_x, max_x, min_y, max_y, tracker_sensitivity,
                 smooth_x, smooth_y, history_x, history_y, gaze_data,
                 tracked, settings>>
appVars == <<config_sensitivity, settings_ret, signals, iteration>>
threadVars == <<set_pc, set_bounds, calc_pc, calc_read>>
pureVars == <<ear_in, ear_out, fit_in, fit_out, grid_in, grid_out, threadVars>>

vars == <<now, blinkVars, blinkObs, calVars, calObs, storeVars, mouseVars, mouseObs,
          trackerVars, appVars, pureVars>>

\* ----------------------------------------------------------------- helpers
Min(a, b) == IF a <= b THEN a ELSE b

RECURSIVE SumSeq(_)
SumSeq(s) == IF s = <<>> THEN 0 ELSE Head(s) + SumSeq(Tail(s))

\* collections.deque(maxlen=n).append(x): the oldest entry is dropped when full
DequeAppend(buf, x, n) ==
    IF Len(buf) >= n THEN Append(Tail(buf), x) ELSE Append(buf, x)

\* ============================================================ BlinkDetector
Dts == 0..MaxDt
RawEars == {EarShut, EarOpen}
EarThresholds == {DefaultEarThreshold}
Cooldowns == 1..MaxCooldown

NoBlink == [blink_type |-> "NONE", timestamp |-> 0]

\* detect(): sum(buffer) / len(buffer)
Smooth(buf) == <<SumSeq(buf), Len(buf)>>

\* detect(): self._left_ear < self.ear_threshold, for a mean <<sum, len>>
IsClosed(ear, threshold) == ear[1] < threshold * ear[2]

\* detect(): the cooldown check
InCooldownOff(t, last, cd) == FALSE
InCooldown(t, last, cd) == t - last < cd

\* _check_blinks, first block: "Left eye blink (right eye must be open)"
LeftStepLate(count, was, cf, L, R) ==
    IF L /\ ~R THEN [count |-> count + 1, was |-> TRUE, result |-> "NONE"]
    ELSE IF was /\ ~L
         THEN [count |-> 0, was |-> FALSE,
               result |-> IF count > cf THEN "LEFT" ELSE "NONE"]
         ELSE [count |-> count, was |-> was, result |-> "NONE"]
LeftStepEager(count, was, cf, L, R) ==
    IF L /\ ~R
    THEN [count |-> count + 1, was |-> TRUE,
          result |-> IF count + 1 >= cf THEN "LEFT" ELSE "NONE"]
    ELSE IF was /\ ~L
         THEN [count |-> 0, was |-> FALSE, result |-> "NONE"]
         ELSE [count |-> count, was |-> was, result |-> "NONE"]
LeftStepSticky(count, was, cf, L, R) ==
    IF L /\ ~R THEN [count |-> count + 1, was |-> TRUE, result |-> "NONE"]
    ELSE IF was /\ ~L /\ ~R
         THEN [count |-> 0, was |-> FALSE,
               result |-> IF count >= cf THEN "LEFT" ELSE "NONE"]
         ELSE [count |-> count, was |-> was, result |-> "NONE"]
LeftStep(count, was, cf, L, R) ==
    IF L /\ ~R THEN [count |-> count + 1, was |-> TRUE, result |-> "NONE"]
    ELSE IF was /\ ~L
         THEN [count |-> 0, was |-> FALSE,
               result |-> IF count >= cf THEN "LEFT" ELSE "NONE"]
         ELSE [count |-> count, was |-> was, result |-> "NONE"]

\* _check_blinks, second block: "Right eye blink (left eye must be open)"
RightStep(count, was, cf, L, R, result) ==
    IF R /\ ~L THEN [count |-> count + 1, was |-> TRUE, result |-> result]
    ELSE IF was /\ ~R
         THEN [count |-> 0, was |-> FALSE,
               result |-> IF count >= cf
                          THEN (IF result = "LEFT" THEN "BOTH" ELSE "RIGHT")
                          ELSE result]
         ELSE [count |-> count, was |-> was, result |-> result]

\* _check_blinks, third block: "Both eyes closed", with _reset()
BothStep(lc, rc, lw, rw, cf, L, R, result) ==
    IF L /\ R
    THEN [lc |-> lc + 1, rc |-> rc + 1, lw |-> lw, rw |-> rw, result |-> result]
    ELSE IF lw /\ rw /\ ~L /\ ~R
         THEN [lc |-> 0, rc |-> 0, lw |-> FALSE, rw |-> FALSE,
               result |-> IF Min(lc, rc) >= cf THEN "BOTH" ELSE result]
         ELSE [lc |-> lc, rc |-> rc, lw |-> lw, rw |-> rw, result |-> result]

\* _check_blinks(left_closed, right_closed): the three blocks in order
CheckBlinks(lc, rc, lw, rw, cf, L, R) ==
    LET a == LeftStep(lc, lw, cf, L, R)
        b == RightStep(rc, rw, cf, L, R, a.result)
    IN  BothStep(a.count, b.count, a.was, b.was, cf, L, R, b.result)

\* ---- observers: what the sequence of processed detect() calls looked like
\* scen follows the pattern "fresh detector, N frames with one eye closed and
\* the other open, then one frame with both open".
ScenNext(s, L, R) ==
    CASE s = "fresh" /\ L /\ ~R -> "left"
      [] s = "fresh" /\ R /\ ~L -> "right"
      [] s = "fresh" /\ ~L /\ ~R -> "done"
      [] s = "left" /\ L /\ ~R -> "left"
      [] s = "left" /\ ~L /\ ~R -> "doneLeft"
      [] s = "right" /\ R /\ ~L -> "right"
      [] s = "right" /\ ~L /\ ~R -> "doneRight"
      [] OTHER -> "off"

\* eventTimes holds the timestamps of the last two events emitted since the
\* detector was constructed or reset, oldest first.
LastTwo(times, t) == IF times = <<>> THEN <<t>> ELSE <<times[Len(times)], t>>

\* BlinkDetector.__init__(ear_threshold, consecutive_frames, cooldown)
BlinkInitWith(cf, cd) ==
    /\ ear_threshold = DefaultEarThreshold
    /\ consecutive_frames = cf
    /\ cooldown = cd
    /\ left_closed_count = 0
    /\ right_closed_count = 0
    /\ left_was_closed = FALSE
    /\ right_was_closed = FALSE
    /\ last_blink_time = 0
    /\ left_ear_buffer = <<>>
    /\ right_ear_buffer = <<>>
    /\ left_ear = <<0, 1>>
    /\ right_ear = <<0, 1>>
    /\ left_closed = FALSE
    /\ right_closed = FALSE
    /\ blink = NoBlink
    /\ scen = "fresh"
    /\ scenN = 0
    /\ bothRun = 0
    /\ bothDue = FALSE
    /\ leftDirty = FALSE
    /\ rightDirty = FALSE
    /\ eventTimes = <<>>

BlinkInit == \E cf \in 1..MaxFrames, cd \in Cooldowns : BlinkInitWith(cf, cd)

\* BlinkDetector.detect(left_landmarks, right_landmarks); l and r are the
\* values _calculate_ear returns for the two landmark lists, d the time that
\* passed since the previous clock reading; what the call does to the detector
DetectFrame(l, r, d) ==
    /\ now + d <= MaxTime
    /\ now' = now + d
    /\ IF InCooldown(now', last_blink_time, cooldown)
       THEN /\ blink' = NoBlink
            /\ UNCHANGED <<ear_threshold, consecutive_frames, cooldown,
                           left_closed_count, right_closed_count,
                           left_was_closed, right_was_closed, last_blink_time,
                           left_ear_buffer, right_ear_buffer, left_ear, right_ear,
                           left_closed, right_closed>>
            /\ bothDue' = FALSE
            /\ scen' = IF scen \in {"done", "doneLeft", "doneRight"} THEN "off" ELSE scen
            /\ UNCHANGED <<scenN, bothRun, leftDirty, rightDirty, eventTimes>>
       ELSE LET lbuf == DequeAppend(left_ear_buffer, l, SmoothingSamples)
                rbuf == DequeAppend(right_ear_buffer, r, SmoothingSamples)
                L == IsClosed(Smooth(lbuf), ear_threshold)
                R == IsClosed(Smooth(rbuf), ear_threshold)
                c == CheckBlinks(left_closed_count, right_closed_count,
                                 left_was_closed, right_was_closed,
                                 consecutive_frames, L, R)
            IN  /\ c.lc <= MaxCount
                /\ c.rc <= MaxCount
                /\ left_ear_buffer' = lbuf
                /\ right_ear_buffer' = rbuf
                /\ left_ear' = Smooth(lbuf)
                /\ right_ear' = Smooth(rbuf)
                /\ left_closed' = L
                /\ right_closed' = R
                /\ left_closed_count' = c.lc
                /\ right_closed_count' = c.rc
                /\ left_was_closed' = c.lw
                /\ right_was_closed' = c.rw
                /\ IF c.result # "NONE"
                   THEN /\ last_blink_time' = now'
                        /\ blink' = [blink_type |-> c.result, timestamp |-> now']
                        /\ eventTimes' = LastTwo(eventTimes, now')
                   ELSE /\ last_blink_time' = last_blink_time
                        /\ blink' = NoBlink
                        /\ eventTimes' = eventTimes
                /\ UNCHANGED <<ear_threshold, consecutive_frames, cooldown>>
                /\ scen' = ScenNext(scen, L, R)
                /\ scenN' = IF scen' \in {"left", "right"} THEN scenN + 1 ELSE scenN
                /\ bothRun' = IF L /\ R THEN bothRun + 1 ELSE 0
                /\ bothDue' = (~L /\ ~R /\ bothRun >= consecutive_frames)
                /\ leftDirty' = IF left_closed_count = 0 THEN R ELSE leftDirty \/ R
                /\ rightDirty' = IF right_closed_count = 0 THEN L ELSE rightDirty \/ L

\* BlinkDetector.detect(left_landmarks, right_landmarks), called on its own
Detect(l, r, d) ==
    /\ DetectFrame(l, r, d)
    /\ UNCHANGED <<calVars, calObs, storeVars, mouseVars, mouseObs>>
    /\ UNCHANGED <<trackerVars, appVars, pureVars>>

\* BlinkDetector.update_thresholds(ear_threshold, cooldown)
UpdateThresholds(th, cd) ==
    /\ ear_threshold' = th
    /\ cooldown' = cd
    /\ UNCHANGED <<now, consecutive_frames,
                   left_closed_count, right_closed_count,
                   left_was_closed, right_was_closed, last_blink_time,
                   left_ear_buffer, right_ear_buffer, left_ear, right_ear,
                   left_closed, right_closed, blink>>
    /\ UNCHANGED <<blinkObs, calVars, calObs, storeVars, mouseVars, mouseObs>>
    /\ UNCHANGED <<trackerVars, appVars, pureVars>>

\* BlinkDetector.reset(): _reset(), both buffers cleared, cooldown cleared
Reset ==
    /\ left_closed_count' = 0
    /\ right_closed_count' = 0
    /\ left_was_closed' = FALSE
    /\ right_was_closed' = FALSE
    /\ left_ear_buffer' = <<>>
    /\ right_ear_buffer' = <<>>
    /\ last_blink_time' = 0
    /\ UNCHANGED <<now, ear_threshold, consecutive_frames, cooldown,
                   left_ear, right_ear, left_closed, right_closed, blink>>
    /\ scen' = "fresh"
    /\ scenN' = 0
    /\ bothRun' = 0
    /\ bothDue' = FALSE
    /\ leftDirty' = FALSE
    /\ rightDirty' = FALSE
    /\ eventTimes' = <<>>
    /\ UNCHANGED <<calVars, calObs, storeVars, mouseVars, mouseObs>>
    /\ UNCHANGED <<trackerVars, appVars, pureVars>>

DetectCall == \E l \in RawEars, r \in RawEars, d \in Dts : Detect(l, r, d)
UpdateThresholdsCall == \E th \in EarThresholds, cd \in Cooldowns : UpdateThresholds(th, cd)

\* ------------------------------------------------- BlinkDetector: claims
\* C1: from a fresh or reset detector, N frames with one eye classified closed
\* and the other open, followed by one frame with both open, yield exactly one
\* event, of that eye and on the opening frame, when N >= consecutive_frames,
\* and no event at all when N < consecutive_frames.
C1_BlinkIffEnoughFrames ==
    /\ scen \in {"left", "right"} => blink = NoBlink
    /\ scen = "done" => blink = NoBlink
    /\ scen = "doneLeft" =>
          blink.blink_type = IF scenN >= consecutive_frames THEN "LEFT" ELSE "NONE"
    /\ scen = "doneRight" =>
          blink.blink_type = IF scenN >= consecutive_frames THEN "RIGHT" ELSE "NONE"

C1_Witness ==
    /\ scen = "doneLeft"
    /\ scenN >= consecutive_frames
    /\ blink.blink_type = "LEFT"

C1_WitnessTooShort ==
    /\ scen = "doneRight"
    /\ scenN > 0
    /\ scenN < consecutive_frames
    /\ blink = NoBlink

\* C2: both eyes classified closed for at least consecutive_frames processed
\* updates and then both classified open in one processed update: that update
\* emits a BOTH event (never LEFT, RIGHT or nothing).
C2_BothClosedYieldsBoth == bothDue => blink.blink_type = "BOTH"

\* C3: a LEFT (RIGHT) event is emitted only if the right (left) eye was
\* classified open on every processed update from the first closed frame
\* counted for the blink up to and including the emitting update.
C3_SingleEyeNeedsOtherOpen ==
    /\ blink.blink_type = "LEFT" => ~leftDirty
    /\ blink.blink_type = "RIGHT" => ~rightDirty

\* C4: a detect() call emits an event only if at least cooldown ticks passed
\* since the last emitted event, so two consecutive events have timestamps at
\* least cooldown apart.
C4_EventsCooldownApart ==
    [][eventTimes' # eventTimes /\ eventTimes' # <<>> =>
          /\ blink'.timestamp - last_blink_time >= cooldown
          /\ Len(eventTimes') = 2 => eventTimes'[2] - eventTimes'[1] >= cooldown]_vars

C4_Witness ==
    /\ Len(eventTimes) = 2
    /\ blink.blink_type # "NONE"
    /\ blink.timestamp = eventTimes[2]
    /\ eventTimes[2] - eventTimes[1] = cooldown

C4_WitnessSuppressed ==
    /\ eventTimes # <<>>
    /\ now - last_blink_time < cooldown
    /\ blink = NoBlink

\* C5: after a processed detect() call the counter of an eye classified open
\* in that call is 0, and the counter of the eye an event was emitted for is 0.
C5_OpenEyeCounterZero ==
    /\ ~left_closed => left_closed_count = 0
    /\ ~right_closed => right_closed_count = 0
    /\ blink.blink_type \in {"LEFT", "BOTH"} => left_closed_count = 0
    /\ blink.blink_type \in {"RIGHT", "BOTH"} => right_closed_count = 0

\* C30: detect() emits a LEFT (RIGHT) event only on an update in which the
\* left (right) eye is classified open, and a BOTH event only on an update in
\* which both are classified open; while an eye stays closed no event is
\* emitted for it, however many frames it has been closed.
C30_NoEventWhileClosed ==
    /\ blink.blink_type = "LEFT" => ~left_closed
    /\ blink.blink_type = "RIGHT" => ~right_closed
    /\ blink.blink_type = "BOTH" => (~left_closed /\ ~right_closed)

\* the left eye reopens after two or more closed frames, and fires then
C30_Witness ==
    /\ blink.blink_type = "LEFT"
    /\ ~left_closed
    /\ scen = "doneLeft"
    /\ scenN > consecutive_frames

\* the left eye has been closed for as many frames as the model counts, past
\* consecutive_frames, and nothing has been emitted
C30_WitnessStillClosed ==
    /\ left_closed
    /\ ~right_closed
    /\ left_closed_count = MaxCount
    /\ left_closed_count > consecutive_frames
    /\ eventTimes = <<>>
    /\ blink = NoBlink

\* C32: after every detect() call at most one of the two was-closed latches
\* is set, and detect() never returns a BOTH event.
C32_LatchesExclusive ==
    /\ ~(left_was_closed /\ right_was_closed)
    /\ blink.blink_type # "BOTH"

\* the left latch was set by a wink, and since then both eyes have been seen
\* closed for as many frames as a blink needs
C32_Witness ==
    /\ left_was_closed
    /\ left_closed_count > right_closed_count
    /\ right_closed_count >= consecutive_frames
    /\ left_closed
    /\ right_closed
    /\ ~right_was_closed

\* winks of the two eyes have alternated and given two events
C32_WitnessAlternating ==
    /\ Len(eventTimes) = 2
    /\ right_was_closed
    /\ blink.blink_type = "LEFT"

\* C33: a detect() call made less than cooldown after the last event returns
\* None and leaves the counters, the latches, both EAR buffers, the reported
\* EAR values, the classifications and the last-blink timestamp as they were.
C33_CooldownFreezes ==
    [][\/ /\ blink' = NoBlink
          /\ UNCHANGED <<left_closed_count, right_closed_count,
                         left_was_closed, right_was_closed,
                         left_ear_buffer, right_ear_buffer, left_ear, right_ear,
                         left_closed, right_closed, last_blink_time,
                         ear_threshold, consecutive_frames, cooldown>>
       \/ ~(now' - last_blink_time < cooldown)
       \/ ~(\E l \in RawEars, r \in RawEars : Detect(l, r, now' - now))]_vars

\* a detect() call was made one tick after an event, inside a cooldown of two
\* ticks, while a wink of the other eye was being counted
C33_Witness ==
    /\ last_blink_time >= StartTime
    /\ now = last_blink_time + 1
    /\ cooldown = 2
    /\ blink = NoBlink
    /\ right_was_closed
    /\ right_closed_count > 0

BlinkNext ==
    \/ DetectCall
    \/ UpdateThresholdsCall
    \/ Reset

\* =============================================================== Calibrator
\* Gaze inputs: None, or a normalised position in hundredths.
NoGaze == <<>>
Gazes == {NoGaze, <<12, 12>>, <<88, 12>>, <<12, 88>>, <<88, 88>>, <<50, 50>>, <<50, 12>>}
PointsCounts == {0, 1, 4}

RECURSIVE Pow2(_)
Pow2(k) == IF k <= 0 THEN 1 ELSE 2 * Pow2(k - 1)

\* number of bits of a natural number
RECURSIVE BitLen(_)
BitLen(n) == IF n = 0 THEN 0 ELSE 1 + BitLen(n \div 2)

\* numpy float64 -> float32: the nearest value with a 24-bit significand, ties
\* to even
ToFloat32(n) ==
    LET a == IF n < 0 THEN 0 - n ELSE n
        k == BitLen(a) - Mantissa32
        q == a \div Pow2(k)
        r == a % Pow2(k)
        up == r > Pow2(k - 1) \/ (r = Pow2(k - 1) /\ q % 2 = 1)
        v == IF k <= 0 THEN a ELSE (IF up THEN q + 1 ELSE q) * Pow2(k)
    IN  IF n < 0 THEN 0 - v ELSE v

\* num / den in units of 1/Unit, for num >= 0 and den > 0
FixDiv(num, den) == (num \div den) * Unit + ((num % den) * Unit) \div den

\* a * n / d for a >= 0, n >= 0, d > 0, without leaving 32 bits
MulFrac(a, n, d) == (a \div d) * n + ((a % d) * n) \div d

\* The matrix of a transform is the sequence <<ax, bx, ay, by>> standing for
\* [[ax, 0, bx], [0, ay, by], [0, 0, 1]], each entry in units of 1/Unit.
\* cv2.findHomography(src, dst) for four correspondences whose gaze points and
\* screen points both form an axis-parallel rectangle (the 2 x 2 grid, row by
\* row): the only homography through them is the scale and offset per axis.
\* A gaze coordinate is the fraction <<num, den>> of hundredths.
HomographyScaleOnly(points) ==
    LET p == points[1]
        q == points[4]
    IN  <<FixDiv(100 * (q.screen_x - p.screen_x) * p.gaze_x[2] * q.gaze_x[2],
                 q.gaze_x[1] * p.gaze_x[2] - p.gaze_x[1] * q.gaze_x[2]),
          0,
          FixDiv(100 * (q.screen_y - p.screen_y) * p.gaze_y[2] * q.gaze_y[2],
                 q.gaze_y[1] * p.gaze_y[2] - p.gaze_y[1] * q.gaze_y[2]),
          0>>
Homography(points) ==
    LET p == points[1]
        q == points[4]
        rect == /\ points[3].gaze_x = p.gaze_x /\ points[2].gaze_x = q.gaze_x
                /\ points[2].gaze_y = p.gaze_y /\ points[3].gaze_y = q.gaze_y
                /\ points[3].screen_x = p.screen_x /\ points[2].screen_x = q.screen_x
                /\ points[2].screen_y = p.screen_y /\ points[3].screen_y = q.screen_y
                /\ q.screen_x > p.screen_x /\ q.screen_y > p.screen_y
                /\ q.gaze_x[1] * p.gaze_x[2] > p.gaze_x[1] * q.gaze_x[2]
                /\ q.gaze_y[1] * p.gaze_y[2] > p.gaze_y[1] * q.gaze_y[2]
        ax == FixDiv(100 * (q.screen_x - p.screen_x) * p.gaze_x[2] * q.gaze_x[2],
                     q.gaze_x[1] * p.gaze_x[2] - p.gaze_x[1] * q.gaze_x[2])
        ay == FixDiv(100 * (q.screen_y - p.screen_y) * p.gaze_y[2] * q.gaze_y[2],
                     q.gaze_y[1] * p.gaze_y[2] - p.gaze_y[1] * q.gaze_y[2])
    IN  IF Len(points) = 4 /\ rect
        THEN <<ax, p.screen_x * Unit - MulFrac(ax, p.gaze_x[1], 100 * p.gaze_x[2]),
               ay, p.screen_y * Unit - MulFrac(ay, p.gaze_y[1], 100 * p.gaze_y[2])>>
        ELSE <<>>

NoTransform == [kind |-> "none", points |-> <<>>, m |-> <<>>]
\* cv2.findHomography(src, dst): the float64 matrix fitted from these
\* correspondences
FindHomography(points) == [kind |-> "fit", points |-> points, m |-> Homography(points)]

\* update(): the tuple returned when the session is over
DoneRet == [completed |-> TRUE, target |-> <<>>, progress |-> 100]
NoRet == [completed |-> FALSE, target |-> <<>>, progress |-> 0]

RECURSIVE Gcd(_, _)
Gcd(a, b) == IF b = 0 THEN a ELSE Gcd(b, a % b)

RECURSIVE Isqrt(_, _)
Isqrt(n, r) == IF (r + 1) * (r + 1) > n THEN r ELSE Isqrt(n, r + 1)

RECURSIVE SumCoord(_, _)
SumCoord(s, i) == IF s = <<>> THEN 0 ELSE Head(s)[i] + SumCoord(Tail(s), i)

\* update(): sum(g[i] for g in samples) / len(samples), as a fraction in
\* lowest terms <<numerator, denominator>>
Average(samples, i) ==
    LET s == SumCoord(samples, i)
        n == Len(samples)
        g == Gcd(s, n)
    IN  <<s \div g, n \div g>>

\* _generate_grid(): int(screen * margin_percent), margin_percent = 0.12
MarginX == (ScreenWidth * MarginPercent) \div 100
MarginY == (ScreenHeight * MarginPercent) \div 100

\* _generate_grid(): int(screen * margin_percent), margin_percent in hundredths
MarginOf(screen, mp) == (screen * mp) \div 100

\* _generate_grid(): the rows x cols grid, row by row, on a w x h screen with
\* margin_percent mp
GridPointsOn(w, h, mp, rows, cols) ==
    LET margin_x == MarginOf(w, mp)
        margin_y == MarginOf(h, mp)
        inner_w == w - 2 * margin_x
        inner_h == h - 2 * margin_y
        X(col) == IF cols > 1
                  THEN margin_x + (inner_w * col) \div (IF cols - 1 > 1 THEN cols - 1 ELSE 1)
                  ELSE w \div 2
        Y(row) == IF rows > 1
                  THEN margin_y + (inner_h * row) \div (IF rows - 1 > 1 THEN rows - 1 ELSE 1)
                  ELSE h \div 2
    IN  [k \in 1..(rows * cols) |-> <<X((k - 1) % cols), Y((k - 1) \div cols)>>]
GridPoints(rows, cols) ==
    GridPointsOn(ScreenWidth, ScreenHeight, MarginPercent, rows, cols)

\* _generate_grid() of a calibrator constructed with these arguments
GenerateGridNoLayout(w, h, mp, pc) ==
    GridPointsOn(w, h, mp, Isqrt(pc, 0), Isqrt(pc, 0))
GenerateGridOn(w, h, mp, pc) ==
    IF pc = 9 THEN GridPointsOn(w, h, mp, 3, 3)
    ELSE IF pc = 5
         THEN << <<w \div 2, h \div 2>>,
                 <<MarginOf(w, mp), MarginOf(h, mp)>>,
                 <<w - MarginOf(w, mp), MarginOf(h, mp)>>,
                 <<MarginOf(w, mp), h - MarginOf(h, mp)>>,
                 <<w - MarginOf(w, mp), h - MarginOf(h, mp)>> >>
         ELSE GridPointsOn(w, h, mp, Isqrt(pc, 0), Isqrt(pc, 0))

\* _generate_grid()
GenerateGridAtLeastOne(pc) ==
    IF pc = 0 THEN GridPoints(1, 1) ELSE GridPoints(Isqrt(pc, 0), Isqrt(pc, 0))
GenerateGrid(pc) == GenerateGridOn(ScreenWidth, ScreenHeight, MarginPercent, pc)

\* self._target_points, fixed at construction
target_points == GenerateGrid(points_count)

\* _is_gaze_on_target(): squared distance between the gaze and the normalised
\* target, in hundredths squared.  target / screen is exact for the targets of
\* this screen.
DistanceSq(gaze, target) ==
    LET dx == gaze[1] - (100 * target[1]) \div ScreenWidth
        dy == gaze[2] - (100 * target[2]) \div ScreenHeight
    IN  dx * dx + dy * dy

\* _is_gaze_on_target(): distance < tolerance
IsGazeOnTarget(gaze, target) ==
    DistanceSq(gaze, target) < InitialTolerance * InitialTolerance

\* update(): the gaze quality of this tick; the NEAR test is
\* distance < initial_tolerance * 1.5
QualityOfLenient(gaze, target) ==
    IF gaze = NoGaze THEN "NO_GAZE"
    ELSE IF 4 * DistanceSq(gaze, target) < 9 * InitialTolerance * InitialTolerance
         THEN "ON_TARGET"
         ELSE "OFF_TARGET"
QualityOf(gaze, target) ==
    IF gaze = NoGaze THEN "NO_GAZE"
    ELSE IF IsGazeOnTarget(gaze, target) THEN "ON_TARGET"
    ELSE IF 4 * DistanceSq(gaze, target) < 9 * InitialTolerance * InitialTolerance
         THEN "NEAR_TARGET"
         ELSE "OFF_TARGET"

\* update(): self._on_target_time after this tick
HoldAfterDecay(quality, hold, dt) ==
    IF quality = "ON_TARGET" THEN hold + dt
    ELSE IF quality = "OFF_TARGET" THEN 0 ELSE hold
HoldAfter(quality, hold, dt) ==
    IF quality = "ON_TARGET" THEN hold + dt ELSE hold

\* update(): "Point completed"
PointCompletedByTime(hold, samples) == hold >= HoldDuration
PointCompleted(hold, samples) ==
    hold >= HoldDuration /\ Len(samples) >= MinSamples

\* update(): min(1.0, on_target_time / hold_duration), in percent
Progress(hold) == Min(100, (hold * 100) \div HoldDuration)

\* _finalize(): the transform after the call
FinalizeAlwaysFits(points, old) == FindHomography(points)
FinalizeTransform(points, old) ==
    IF Len(points) < MinPoints THEN old ELSE FindHomography(points)

\* the calibration file load() may find
\* "missing": no file at the path; "corrupt": not JSON; "valid": the JSON
\* object save() writes, m the 'transform' value and points the 'points' list
MissingFile == [kind |-> "missing", m |-> <<>>, points |-> <<>>]
CorruptFile == [kind |-> "corrupt", m |-> <<>>, points |-> <<>>]
\* load(): np.array(data['transform'], dtype=np.float32)
LoadedTransform(m) ==
    [kind |-> "file", points |-> <<>>, m |-> [i \in DOMAIN m |-> ToFloat32(m[i])]]
FileMatrix == <<ScreenWidth * Unit, 0, ScreenHeight * Unit, 0>>
FileTransform == LoadedTransform(FileMatrix)
FilePoints ==
    << [screen_x |-> 24, screen_y |-> 12, gaze_x |-> <<12, 1>>, gaze_y |-> <<12, 1>>],
       [screen_x |-> 176, screen_y |-> 12, gaze_x |-> <<88, 1>>, gaze_y |-> <<12, 1>>],
       [screen_x |-> 24, screen_y |-> 88, gaze_x |-> <<12, 1>>, gaze_y |-> <<88, 1>>],
       [screen_x |-> 176, screen_y |-> 88, gaze_x |-> <<88, 1>>, gaze_y |-> <<88, 1>>] >>

ValidFile == [kind |-> "valid", m |-> FileMatrix, points |-> FilePoints]
\* a JSON object whose 'transform' value is the number 5 and whose 'points'
\* list is empty
MisshapenFile == [kind |-> "misshapen", m |-> <<5 * Unit>>, points |-> <<>>]
\* a JSON object whose 'transform' value is a 3 x 3 matrix and whose 'points'
\* list holds an object without 'gaze_y': CalibrationPoint(**p) raises
BadPointsFile == [kind |-> "bad_points", m |-> FileMatrix, points |-> <<>>]
Files == {MissingFile, CorruptFile, ValidFile}

NoSave == [outcome |-> "none", calibrated |-> FALSE, ret |-> "none"]
NoLoad == [file |-> "none", ret |-> "none"]
NoQuery == [gaze |-> <<>>, calibrated |-> FALSE, pixel |-> <<>>]

\* Calibrator.__init__(screen_width, screen_height, points_count, hold_duration)
CalInitWith(pc) ==
    /\ points_count = pc
    /\ collected_points = <<>>
    /\ gaze_samples = <<>>
    /\ on_target_time = 0
    /\ last_update_time = 0
    /\ gaze_quality = "NO_GAZE"
    /\ is_active = FALSE
    /\ current_index = 0
    /\ transform = NoTransform
    /\ update_ret = NoRet
    /\ run = "none"
    /\ save_ret = NoSave
    /\ load_ret = NoLoad
    /\ gaze_ret = NoQuery

CalInit == \E pc \in PointsCounts : CalInitWith(pc)

\* Calibrator.start()
StartSessionKeepsPoints(d) ==
    /\ now + d <= MaxCalTime
    /\ now' = now + d
    /\ is_active' = TRUE
    /\ current_index' = 0
    /\ gaze_samples' = <<>>
    /\ on_target_time' = 0
    /\ last_update_time' = now'
    /\ gaze_quality' = "NO_GAZE"
    /\ run' = "active"
    /\ update_ret' = NoRet
    /\ load_ret' = NoLoad
    /\ UNCHANGED <<collected_points, points_count, transform, disk, save_ret, gaze_ret>>
StartSession(d) ==
    /\ now + d <= MaxCalTime
    /\ now' = now + d
    /\ is_active' = TRUE
    /\ current_index' = 0
    /\ collected_points' = <<>>
    /\ gaze_samples' = <<>>
    /\ on_target_time' = 0
    /\ last_update_time' = now'
    /\ gaze_quality' = "NO_GAZE"
    /\ run' = "active"
    /\ update_ret' = NoRet
    /\ load_ret' = NoLoad
    /\ UNCHANGED <<points_count, transform, disk, save_ret, gaze_ret>>

\* Calibrator.start(), called on its own
Start(d) ==
    /\ StartSession(d)
    /\ UNCHANGED <<blinkVars, blinkObs, mouseVars, mouseObs>>
    /\ UNCHANGED <<trackerVars, appVars, pureVars>>

\* Calibrator.stop()
StopAndForget ==
    /\ is_active' = FALSE
    /\ transform' = NoTransform
    /\ run' = IF is_active THEN "stopped" ELSE run
    /\ update_ret' = NoRet
    /\ UNCHANGED <<now, points_count, collected_points, gaze_samples,
                   on_target_time, last_update_time, gaze_quality,
                   current_index>>
    /\ UNCHANGED <<blinkVars, blinkObs, storeVars, mouseVars, mouseObs>>
    /\ UNCHANGED <<trackerVars, appVars, pureVars>>
Stop ==
    /\ is_active' = FALSE
    /\ run' = IF is_active THEN "stopped" ELSE run
    /\ update_ret' = NoRet
    /\ UNCHANGED <<now, points_count, collected_points, gaze_samples,
                   on_target_time, last_update_time, gaze_quality,
                   current_index, transform>>
    /\ UNCHANGED <<blinkVars, blinkObs, storeVars, mouseVars, mouseObs>>
    /\ UNCHANGED <<trackerVars, appVars, pureVars>>

\* Calibrator.update(gaze), what it does to the calibrator; d is the time that
\* passed since the previous clock reading
UpdateSession(gaze, d) ==
    /\ UNCHANGED points_count
    /\ IF ~is_active
       THEN /\ update_ret' = DoneRet
            /\ UNCHANGED <<now, collected_points, gaze_samples, on_target_time,
                           last_update_time, gaze_quality, is_active,
                           current_index, transform, run>>
       ELSE IF current_index >= Len(target_points)
       THEN /\ is_active' = FALSE
            /\ transform' = FinalizeTransform(collected_points, transform)
            /\ update_ret' = DoneRet
            /\ run' = "finalized"
            /\ UNCHANGED <<now, collected_points, gaze_samples, on_target_time,
                           last_update_time, gaze_quality, current_index>>
       ELSE LET current_target == target_points[current_index + 1]
                current_time == now + d
                dt == current_time - last_update_time
                quality == QualityOf(gaze, current_target)
                hold == HoldAfter(quality, on_target_time, dt)
                samples == IF quality = "ON_TARGET"
                           THEN Append(gaze_samples, gaze) ELSE gaze_samples
                point == [screen_x |-> current_target[1],
                          screen_y |-> current_target[2],
                          gaze_x |-> Average(samples, 1),
                          gaze_y |-> Average(samples, 2)]
            IN  /\ current_time <= MaxCalTime
                /\ Len(samples) <= MaxSamples
                /\ now' = current_time
                /\ last_update_time' = current_time
                /\ IF PointCompleted(hold, samples)
                   THEN /\ collected_points' = Append(collected_points, point)
                        /\ current_index' = current_index + 1
                        /\ gaze_samples' = <<>>
                        /\ on_target_time' = 0
                        /\ gaze_quality' = "NO_GAZE"
                        /\ IF current_index + 1 >= Len(target_points)
                           THEN /\ is_active' = FALSE
                                /\ transform' = FinalizeTransform(collected_points', transform)
                                /\ update_ret' = DoneRet
                                /\ run' = "finalized"
                           ELSE /\ update_ret' = [completed |-> FALSE,
                                                  target |-> current_target,
                                                  progress |-> Progress(hold)]
                                /\ UNCHANGED <<is_active, transform, run>>
                   ELSE /\ gaze_samples' = samples
                        /\ on_target_time' = hold
                        /\ gaze_quality' = quality
                        /\ update_ret' = [completed |-> FALSE,
                                          target |-> current_target,
                                          progress |-> Progress(hold)]
                        /\ UNCHANGED <<collected_points, current_index,
                                       is_active, transform, run>>

\* Calibrator.update(gaze), called on its own
Update(gaze, d) ==
    /\ UpdateSession(gaze, d)
    /\ UNCHANGED <<blinkVars, blinkObs, storeVars, mouseVars, mouseObs>>
    /\ UNCHANGED <<trackerVars, appVars, pureVars>>

\* load(): np.array(data['transform'], dtype=np.float32) raises for no number
\* and no nesting of numbers, whatever its shape
LoadAccepts(file) == file.kind \in {"valid", "misshapen"}
\* load(): self._transform is assigned before the 'points' list is read, inside
\* the same try
TransformAssigned(file) == file.kind \in {"valid", "misshapen", "bad_points"}

\* Calibrator.load(filepath), file being what is found at the path; the
\* application loads once, at start-up, before any session
Load(file) ==
    /\ ~is_active
    /\ run = "none"
    /\ IF LoadAccepts(file)
       THEN /\ transform' = LoadedTransform(file.m)
            /\ collected_points' = file.points
            /\ run' = "none"
            /\ load_ret' = [file |-> file.kind, ret |-> "True"]
       ELSE /\ transform' = IF TransformAssigned(file)
                             THEN LoadedTransform(file.m) ELSE transform
            /\ UNCHANGED <<collected_points, run>>
            /\ load_ret' = [file |-> file.kind, ret |-> "False"]
    /\ UNCHANGED <<now, points_count, gaze_samples, on_target_time,
                   last_update_time, gaze_quality, is_active, current_index,
                   update_ret, disk, save_ret, gaze_ret>>
    /\ UNCHANGED <<blinkVars, blinkObs, mouseVars, mouseObs>>
    /\ UNCHANGED <<trackerVars, appVars, pureVars>>

\* Calibrator.is_calibrated()
is_calibrated == transform # NoTransform

\* np.clip(v, lo, hi)
Clip(v, lo, hi) == IF v < lo THEN lo ELSE IF v > hi THEN hi ELSE v

\* cv2.perspectiveTransform(pt, m) for the float32 point pt = gaze (hundredths):
\* computed in float64, returned as float32, in units of 1/Unit
PerspectiveTransform(m, gaze) ==
    <<ToFloat32(MulFrac(m[1], gaze[1], 100) + m[2]),
      ToFloat32(MulFrac(m[3], gaze[2], 100) + m[4])>>

\* transform_gaze(), the branch with a transform: clip, then int()
TransformFitted(m, gaze) ==
    LET result == PerspectiveTransform(m, gaze)
    IN  <<Clip(result[1], 0, (ScreenWidth - 1) * Unit) \div Unit,
          Clip(result[2], 0, (ScreenHeight - 1) * Unit) \div Unit>>

\* transform_gaze(), the branch without a transform: int(gaze * screen)
TransformLinear(gaze) ==
    <<(gaze[1] * ScreenWidth) \div 100, (gaze[2] * ScreenHeight) \div 100>>

\* Calibrator.transform_gaze(gaze); a transform that is no 3 x 3 matrix makes
\* cv2 raise, which leaves the calibrator as it was
TransformGaze(gaze) ==
    /\ transform = NoTransform \/ Len(transform.m) = 4
    /\ gaze_ret' = [gaze |-> gaze,
                    calibrated |-> is_calibrated,
                    pixel |-> IF transform = NoTransform
                              THEN TransformLinear(gaze)
                              ELSE TransformFitted(transform.m, gaze)]
    /\ UNCHANGED <<now, calVars, calObs, disk, save_ret, load_ret>>
    /\ UNCHANGED <<blinkVars, blinkObs, mouseVars, mouseObs>>
    /\ UNCHANGED <<trackerVars, appVars, pureVars>>

\* what open(filepath, 'w') and json.dump may do
SaveOutcomes == {"ok", "open_failed", "write_failed"}

\* Calibrator.save(filepath) of a calibrator holding the transform t and these
\* points.  tolist() and JSON keep every float64 digit, so the file holds the
\* matrix entries as they are in memory.
SaveTo(t, points, outcome) ==
    /\ save_ret' = [outcome |-> outcome,
                    calibrated |-> t # NoTransform,
                    ret |-> IF t # NoTransform /\ outcome = "ok" THEN "True" ELSE "False"]
    /\ disk' = IF t = NoTransform \/ outcome = "open_failed" THEN disk
               ELSE IF outcome = "write_failed" THEN CorruptFile
               ELSE [kind |-> IF Len(t.m) = 4 THEN "valid" ELSE "misshapen",
                     m |-> t.m,
                     points |-> points]

\* Calibrator.save(filepath), called on its own
Save(outcome) ==
    /\ SaveTo(transform, collected_points, outcome)
    /\ UNCHANGED <<now, calVars, calObs, load_ret, gaze_ret>>
    /\ UNCHANGED <<blinkVars, blinkObs, mouseVars, mouseObs>>
    /\ UNCHANGED <<trackerVars, appVars, pureVars>>

\* The process ends and the application is started again: MainWindow builds a
\* new Calibrator; the file stays.
Restart ==
    /\ points_count' = points_count
    /\ collected_points' = <<>>
    /\ gaze_samples' = <<>>
    /\ on_target_time' = 0
    /\ last_update_time' = 0
    /\ gaze_quality' = "NO_GAZE"
    /\ is_active' = FALSE
    /\ current_index' = 0
    /\ transform' = NoTransform
    /\ update_ret' = NoRet
    /\ run' = "none"
    /\ save_ret' = NoSave
    /\ load_ret' = NoLoad
    /\ gaze_ret' = NoQuery
    /\ UNCHANGED <<now, disk>>
    /\ UNCHANGED <<blinkVars, blinkObs, mouseVars, mouseObs>>
    /\ UNCHANGED <<trackerVars, appVars, pureVars>>

StartCall == \E d \in Dts : Start(d)
UpdateCall == \E gaze \in Gazes, d \in Dts : Update(gaze, d)
LoadCall == \E file \in Files : Load(file)

CalNext ==
    \/ StartCall
    \/ Stop
    \/ UpdateCall
    \/ LoadCall

\* ---- persistence and query, from a calibrator that is fresh or has completed
\* a 4-target session
QueryGazes == {<<0, 0>>, <<50, 50>>, <<100, 100>>, <<88, 12>>}
StoreFiles == Files \cup {MisshapenFile, BadPointsFile}
\* averaged gaze (a fraction of hundredths) collected for the low and for the
\* high grid column or row
AvgLow == {<<11, 1>>, <<12, 1>>, <<13, 1>>}
AvgHigh == {<<86, 1>>, <<87, 1>>, <<88, 1>>}

\* the points update() collects in a 4-target session
SessionPoints(x0, x1, y0, y1) ==
    LET t == GenerateGrid(4)
    IN  << [screen_x |-> t[1][1], screen_y |-> t[1][2], gaze_x |-> x0, gaze_y |-> y0],
           [screen_x |-> t[2][1], screen_y |-> t[2][2], gaze_x |-> x1, gaze_y |-> y0],
           [screen_x |-> t[3][1], screen_y |-> t[3][2], gaze_x |-> x0, gaze_y |-> y1],
           [screen_x |-> t[4][1], screen_y |-> t[4][2], gaze_x |-> x1, gaze_y |-> y1] >>

\* the calibrator after the update() that finalized the last of 4 targets
CompletedSession(points) ==
    /\ points_count = 4
    /\ collected_points = points
    /\ gaze_samples = <<>>
    /\ on_target_time = 0
    /\ last_update_time = StartTime
    /\ gaze_quality = "NO_GAZE"
    /\ is_active = FALSE
    /\ current_index = 4
    /\ transform = FindHomography(points)
    /\ update_ret = DoneRet
    /\ run = "finalized"
    /\ save_ret = NoSave
    /\ load_ret = NoLoad
    /\ gaze_ret = NoQuery

\* the file saved by an earlier session whose gaze spanned only the middle half
\* of the normalized range: screen = 304 * gaze - 52 across, 152 * gaze - 26 down
EarlierFile ==
    [kind |-> "valid",
     m |-> <<304 * Unit, (0 - 52) * Unit, 152 * Unit, (0 - 26) * Unit>>,
     points |-> SessionPoints(<<1, 4>>, <<3, 4>>, <<1, 4>>, <<3, 4>>)]

\* the calibrator that loaded the file on disk at start-up and is one sample
\* short of completing the last target of a 4-target session: three points
\* stored, 19 samples and half the hold time on the fourth target
LateSession ==
    LET points == SessionPoints(<<12, 1>>, <<88, 1>>, <<12, 1>>, <<88, 1>>)
    IN  /\ points_count = 4
        /\ collected_points = SubSeq(points, 1, 3)
        /\ gaze_samples = [i \in 1..(MinSamples - 1) |-> <<88, 88>>]
        /\ on_target_time = HoldDuration \div 2
        /\ last_update_time = now
        /\ gaze_quality = "ON_TARGET"
        /\ is_active = TRUE
        /\ current_index = 3
        /\ transform = LoadedTransform(disk.m)
        /\ update_ret = [completed |-> FALSE,
                         target |-> GenerateGrid(4)[4],
                         progress |-> Progress(HoldDuration \div 2)]
        /\ run = "active"
        /\ save_ret = NoSave
        /\ load_ret = NoLoad
        /\ gaze_ret = NoQuery

StoreInit ==
    /\ disk \in StoreFiles
    /\ \/ CalInitWith(4)
       \/ \E x0 \in AvgLow, x1 \in AvgHigh, y0 \in AvgLow, y1 \in AvgHigh :
             CompletedSession(SessionPoints(x0, x1, y0, y1))

SaveCall == \E outcome \in SaveOutcomes : Save(outcome)
LoadDisk == Load(disk)
TransformGazeCall == \E gaze \in QueryGazes : TransformGaze(gaze)

StoreNext ==
    \/ SaveCall
    \/ LoadDisk
    \/ TransformGazeCall
    \/ Restart

\* --------------------------------------------------- Calibrator: claims
\* C6: in an active session a CalibrationPoint is appended only by an update
\* whose hold time (after this tick) is >= hold_duration and whose sample
\* buffer (after this tick) holds >= min_samples; the point's screen coordinate
\* is the current target, the index advances by one, and hold time, buffer and
\* quality are reset.
C6_PointOnlyWhenHeld ==
    [][(is_active /\ Len(collected_points') > Len(collected_points)) =>
          /\ Len(collected_points') = Len(collected_points) + 1
          /\ SubSeq(collected_points', 1, Len(collected_points)) = collected_points
          /\ collected_points'[Len(collected_points')].screen_x
                = target_points[current_index + 1][1]
          /\ collected_points'[Len(collected_points')].screen_y
                = target_points[current_index + 1][2]
          /\ current_index' = current_index + 1
          /\ on_target_time' = 0
          /\ gaze_samples' = <<>>
          /\ gaze_quality' = "NO_GAZE"
          /\ on_target_time + (now' - last_update_time) >= HoldDuration
          /\ Len(gaze_samples) + 1 >= MinSamples]_vars

C6_Witness ==
    /\ is_active
    /\ current_index = 1
    /\ Len(collected_points) = 1
    /\ collected_points[1].screen_x = target_points[1][1]
    /\ gaze_samples = <<>>
    /\ on_target_time = 0

\* C7: across an update() that stays on the same target the hold time never
\* decreases, and it is left unchanged unless the gaze is judged ON_TARGET.
C7_HoldNeverDecreases ==
    [][(is_active /\ is_active' /\ UpdateCall /\ current_index' = current_index) =>
          /\ on_target_time' >= on_target_time
          /\ gaze_quality' # "ON_TARGET" => on_target_time' = on_target_time]_vars

C7_Witness ==
    /\ is_active
    /\ on_target_time > 0
    /\ gaze_quality = "OFF_TARGET"

\* C8: the update() that finalizes the last target returns completed=True and
\* ends the session, fitting a transform from the collected points iff there
\* are at least 4 of them; every update() of an inactive calibrator returns
\* (True, None, 1.0) and leaves it inactive.
C8_LastTargetEndsSession ==
    /\ [][(is_active /\ UpdateCall /\ current_index' >= Len(target_points)) =>
             /\ update_ret' = DoneRet
             /\ ~is_active'
             /\ Len(collected_points') >= MinPoints =>
                   transform' = FindHomography(collected_points')
             /\ Len(collected_points') < MinPoints => transform' = transform]_vars
    /\ [][(~is_active /\ UpdateCall) => (update_ret' = DoneRet /\ ~is_active')]_vars

C8_Witness ==
    /\ run = "finalized"
    /\ ~is_active
    /\ Len(collected_points) = 4
    /\ transform = FindHomography(collected_points)
    /\ update_ret = DoneRet

\* C9: a run that was finalized with fewer than 4 collected points leaves the
\* calibrator inactive and not calibrated, whatever its state before start().
C9_FewPointsUncalibrated ==
    (run = "finalized" /\ Len(collected_points) < MinPoints) =>
        (~is_active /\ ~is_calibrated)

\* C10 as claimed: stop() in an active session leaves the calibrator inactive
\* and not calibrated.
C10_StopUncalibrated ==
    [][(is_active /\ Stop) => (~is_active' /\ ~is_calibrated')]_vars

\* C10 as amended: stop() in an active session leaves the calibrator inactive
\* and is_calibrated() as it was; every update() after it returns
\* (True, None, 1.0) and changes no calibrator state.
C10_StopKeepsCalibration ==
    /\ [][(is_active /\ Stop) =>
             (~is_active' /\ transform' = transform /\ is_calibrated' = is_calibrated)]_vars
    /\ [][(~is_active /\ UpdateCall) =>
             (update_ret' = DoneRet /\ UNCHANGED <<now, calVars, run>>)]_vars

C10_Witness ==
    /\ run = "stopped"
    /\ ~is_active
    /\ is_calibrated
    /\ update_ret = DoneRet

\* C11: once stop() has cancelled an active session, neither the partial samples
\* of the target in progress nor any CalibrationPoint finalized within that run
\* is stored any more.
C11_StopDiscardsRun ==
    run = "stopped" => (collected_points = <<>> /\ gaze_samples = <<>>)

\* C15: a started calibrator with points_count = 0 finalizes on its first
\* update(): the call returns (True, None, 1.0), the session becomes inactive,
\* no point is stored and the transform is the one held before the call (the
\* run fits none).
C15_ZeroTargetsFinalize ==
    [][(is_active /\ points_count = 0 /\ UpdateCall) =>
          /\ update_ret' = DoneRet
          /\ ~is_active'
          /\ run' = "finalized"
          /\ collected_points' = <<>>
          /\ transform' = transform]_vars

C15_Witness ==
    /\ points_count = 0
    /\ target_points = <<>>
    /\ run = "finalized"
    /\ ~is_active
    /\ update_ret = DoneRet
    /\ ~is_calibrated

\* C29 as claimed: in an active session with a target left, update(gaze) with
\* a gaze appends exactly one sample to the buffer and sets the quality
\* ON_TARGET when the normalised distance to the current target is below the
\* tolerance; otherwise the buffer is unchanged and the quality is NEAR_TARGET
\* below 1.5 x tolerance and OFF_TARGET from there on.
C29_SampleIffOnTarget ==
    [][(is_active /\ current_index < Len(target_points) /\ update_ret' # NoRet) =>
          \A gaze \in Gazes \ {NoGaze} :
              LET dsq == DistanceSq(gaze, target_points[current_index + 1])
                  tol == InitialTolerance * InitialTolerance
              IN  \/ IF dsq < tol
                     THEN /\ gaze_samples' = Append(gaze_samples, gaze)
                          /\ gaze_quality' = "ON_TARGET"
                     ELSE /\ gaze_samples' = gaze_samples
                          /\ gaze_quality' = IF 4 * dsq < 9 * tol
                                             THEN "NEAR_TARGET" ELSE "OFF_TARGET"
                  \/ ~Update(gaze, now' - now)]_vars

\* C29 as amended: ... when the distance is below the tolerance the sample is
\* appended and the quality set ON_TARGET, unless this sample completes the
\* target: then the point stored is the mean of the buffer with this sample,
\* the buffer is emptied and the quality is NO_GAZE.
C29_SampleIffOnTargetOrCompleted ==
    [][(is_active /\ current_index < Len(target_points) /\ update_ret' # NoRet) =>
          \A gaze \in Gazes \ {NoGaze} :
              LET dsq == DistanceSq(gaze, target_points[current_index + 1])
                  tol == InitialTolerance * InitialTolerance
                  buf == Append(gaze_samples, gaze)
              IN  \/ IF dsq < tol
                     THEN IF Len(collected_points') > Len(collected_points)
                          THEN /\ gaze_samples' = <<>>
                               /\ gaze_quality' = "NO_GAZE"
                               /\ collected_points'[Len(collected_points')].gaze_x
                                     = Average(buf, 1)
                               /\ collected_points'[Len(collected_points')].gaze_y
                                     = Average(buf, 2)
                          ELSE /\ gaze_samples' = buf
                               /\ gaze_quality' = "ON_TARGET"
                     ELSE /\ gaze_samples' = gaze_samples
                          /\ gaze_quality' = IF 4 * dsq < 9 * tol
                                             THEN "NEAR_TARGET" ELSE "OFF_TARGET"
                          /\ collected_points' = collected_points
                  \/ ~Update(gaze, now' - now)]_vars

\* a gaze between 1 and 1.5 tolerances from the target, after samples were taken
C29_Witness ==
    /\ is_active
    /\ gaze_quality = "NEAR_TARGET"
    /\ Len(gaze_samples) > 1
    /\ collected_points # <<>>

C29_WitnessOnTarget ==
    /\ is_active
    /\ gaze_quality = "ON_TARGET"
    /\ Len(gaze_samples) = MinSamples
    /\ on_target_time < HoldDuration

\* C34: from start() on, during the session and after it has ended, there are
\* as many collected points as the target index says, the i-th point's screen
\* coordinate is the i-th target, and the index is at most the number of
\* targets.
C34_PointsFollowTargets ==
    run # "none" =>
        /\ Len(collected_points) = current_index
        /\ current_index <= Len(target_points)
        /\ \A i \in 1..Len(collected_points) :
               <<collected_points[i].screen_x, collected_points[i].screen_y>>
                   = target_points[i]

\* a session begun on a calibrator that had loaded the four points of a file
\* has collected its second point
C34_Witness ==
    /\ is_active
    /\ transform.kind = "file"
    /\ current_index = 2
    /\ Len(collected_points) = 2
    /\ Len(target_points) = 4

\* C35: whenever the calibrator is calibrated, the stored point list is the one
\* that produced the current transform: at least four points whose fit is the
\* transform (as fitted, or as read back from a file in float32).
PointsProduced(points, t) ==
    /\ Len(points) >= MinPoints
    /\ LET m == Homography(points)
       IN  t.m = m \/ t.m = LoadedTransform(m).m
C35_PointsProducedTransform ==
    is_calibrated => PointsProduced(collected_points, transform)

C24_WitnessKept ==
    /\ run = "stopped"
    /\ transform = LoadedTransform(EarlierFile.m)
    /\ collected_points # <<>>
    /\ save_ret.ret = "True"
    /\ gaze_ret.calibrated

\* C12: for every gaze in [0,1]^2 transform_gaze returns a pixel (px, py) with
\* 0 <= px <= screen_width - 1 and 0 <= py <= screen_height - 1, with and
\* without a transform; without one the pixel is the gaze scaled by the screen
\* size.
C12_PixelInsideScreen ==
    gaze_ret # NoQuery =>
        /\ gaze_ret.pixel[1] \in 0..(ScreenWidth - 1)
        /\ gaze_ret.pixel[2] \in 0..(ScreenHeight - 1)
        /\ ~gaze_ret.calibrated => gaze_ret.pixel = TransformLinear(gaze_ret.gaze)

\* C13: save() returns True exactly when a transform exists and the write
\* succeeded; load() returns False for a missing, unreadable or malformed file
\* and True only for a well-formed calibration file.
C13_ReportsFailure ==
    /\ save_ret # NoSave =>
          (save_ret.ret = "True" <=> (save_ret.calibrated /\ save_ret.outcome = "ok"))
    /\ load_ret # NoLoad =>
          (load_ret.ret = "True" <=> load_ret.file = "valid")

\* C14: after load() has read a well-formed file that save() wrote, the
\* calibrator holds the matrix and the point list of the session that was
\* saved, and transform_gaze maps every gaze to the pixel that session mapped
\* it to.
C14_RoundTrip ==
    load_ret = [file |-> "valid", ret |-> "True"] =>
        /\ transform.m = disk.m
        /\ collected_points = disk.points
        /\ \A gx \in 0..100, gy \in {0, 50, 100} :
              TransformFitted(transform.m, <<gx, gy>>) = TransformFitted(disk.m, <<gx, gy>>)

\* C36: a load() that returns False leaves the transform and the collected
\* points as they were before the call.
C36_FailedLoadChangesNothing ==
    [][\/ UNCHANGED <<transform, collected_points>>
       \/ load_ret'.ret # "False"
       \/ ~LoadDisk]_vars

\* ========================================================== MouseController
\* Positions are integers in units of 1/SubPx pixel: every shaped target of
\* the model's gaze inputs, and the mean of up to 6 of them, is a whole number
\* of these.  The dead zone is in thousandths.
SubPx == 3 * 4 * 5
\* self._last_x = None; a position is never negative
None == 0 - 1

Sensitivities == {1, 2}
Curves == {1, 2}
DeadZones == {0, DefaultDeadZone}
\* gaze positions handed to the controller, in hundredths
MouseGazes == {<<50, 50>>, <<60, 50>>, <<100, 0>>, <<0, 100>>}
Buttons == {"left", "right"}

NoCall == [op |-> "none", gaze |-> <<>>, frame |-> FALSE, raised |-> {}]
MoveRequest(x, y, ok) == [op |-> "moveTo", x |-> x, y |-> y, button |-> "", ok |-> ok]
ClickRequest(button, ok) == [op |-> "click", x |-> 0, y |-> 0, button |-> button, ok |-> ok]
DoubleClickRequest(ok) == [op |-> "doubleClick", x |-> 0, y |-> 0, button |-> "", ok |-> ok]

\* try: <request> except Exception: pass -- the requests whose exception leaves
\* the method that made them
EscapingUncaught(reqs) == {reqs[i].op : i \in {j \in DOMAIN reqs : ~reqs[j].ok}}
Escaping(reqs) == {}

Abs(d) == IF d < 0 THEN 0 - d ELSE d

\* move_to_gaze(): the distance d from the centre (hundredths) after the
\* acceleration curve, in 1/10000
CurveOffset(d, curve) ==
    IF curve # 1
    THEN (IF d >= 0 THEN 1 ELSE 0 - 1) * ((Abs(d) ^ curve) \div (100 ^ (curve - 2)))
    ELSE 100 * d

\* move_to_gaze(): the shaped, clamped target of one gaze coordinate g on a
\* screen axis of this many pixels
TargetOffCentre(g, sens, curve, screen) ==
    Clip(((50 * 100 + sens * CurveOffset(g - 49, curve)) * screen * SubPx) \div 10000,
         0, (screen - 1) * SubPx)
Target(g, sens, curve, screen) ==
    Clip(((50 * 100 + sens * CurveOffset(g - 50, curve)) * screen * SubPx) \div 10000,
         0, (screen - 1) * SubPx)

\* move_to_gaze(): sum(buffer) / len(buffer)
Mean(buf) == SumSeq(buf) \div Len(buf)

\* move_to_gaze(): delta < dead_zone, delta the normalised distance between the
\* smoothed position and the last one
InDeadZoneOff(sx, sy, lx, ly, dz) == FALSE
InDeadZone(sx, sy, lx, ly, dz) ==
    LET nx == sx - lx
        ny == ((sy - ly) * ScreenWidth) \div ScreenHeight
        r == (dz * SubPx * ScreenWidth) \div 1000
    IN  nx * nx + ny * ny < r * r

\* set_enabled(): reset() when enabling
AfterEnableKeep(e, old, fresh) == old
AfterEnable(e, old, fresh) == IF e THEN fresh ELSE old

\* click(): the requests made to pyautogui
ClickRequestsUngated(en, button, ok) == <<ClickRequest(button, ok)>>
ClickRequests(en, button, ok) == IF ~en THEN <<>> ELSE <<ClickRequest(button, ok)>>

\* MouseController.__init__(sensitivity, smoothing_samples, dead_zone,
\* acceleration_curve)
MouseInitWith(sens, n, dz, curve) ==
    /\ sensitivity = sens
    /\ dead_zone = dz
    /\ acceleration_curve = curve
    /\ smoothing_samples = n
    /\ x_buffer = <<>>
    /\ y_buffer = <<>>
    /\ last_x = None
    /\ last_y = None
    /\ enabled = FALSE
    /\ call = NoCall
    /\ requests = <<>>
    /\ mscen = "off"

MouseInit ==
    \E sens \in Sensitivities, n \in 1..MaxSmoothing, dz \in DeadZones, curve \in Curves :
        MouseInitWith(sens, n, dz, curve)

\* MouseController.set_enabled(enabled), what it does to the controller
SetEnabledTo(e) ==
    /\ enabled' = e
    /\ x_buffer' = AfterEnable(e, x_buffer, <<>>)
    /\ y_buffer' = AfterEnable(e, y_buffer, <<>>)
    /\ last_x' = AfterEnable(e, last_x, None)
    /\ last_y' = AfterEnable(e, last_y, None)
    /\ call' = [op |-> "set_enabled", gaze |-> <<>>, frame |-> FALSE, raised |-> {}]
    /\ requests' = <<>>
    /\ mscen' = IF e
                THEN (IF mscen = "disabled" THEN "reenabled" ELSE "off")
                ELSE (IF mscen = "disabled" \/ (enabled /\ x_buffer # <<>> /\ last_x # None)
                      THEN "disabled" ELSE "off")
    /\ UNCHANGED <<sensitivity, dead_zone, acceleration_curve, smoothing_samples>>

\* MouseController.set_enabled(enabled), called on its own
SetEnabled(e) ==
    /\ SetEnabledTo(e)
    /\ UNCHANGED <<now, blinkVars, blinkObs, calVars, calObs, storeVars>>
    /\ UNCHANGED <<trackerVars, appVars, pureVars>>

\* MouseController.move_to_gaze(gaze_x, gaze_y), what it does to the controller;
\* ok tells whether pyautogui.moveTo returns or raises
MoveTo(gaze_x, gaze_y, ok) ==
    /\ UNCHANGED <<enabled, sensitivity, dead_zone, acceleration_curve, smoothing_samples>>
    /\ mscen' = IF mscen = "reenabled" THEN "first"
                ELSE IF mscen = "disabled" THEN "disabled" ELSE "off"
    /\ IF ~enabled
       THEN /\ requests' = <<>>
            /\ UNCHANGED <<x_buffer, y_buffer, last_x, last_y>>
       ELSE LET target_x == Target(gaze_x, sensitivity, acceleration_curve, ScreenWidth)
                target_y == Target(gaze_y, sensitivity, acceleration_curve, ScreenHeight)
                xb == DequeAppend(x_buffer, target_x, smoothing_samples)
                yb == DequeAppend(y_buffer, target_y, smoothing_samples)
                mean_x == Mean(xb)
                mean_y == Mean(yb)
            IN  /\ x_buffer' = xb
                /\ y_buffer' = yb
                /\ IF /\ last_x # None
                      /\ last_y # None
                      /\ InDeadZone(mean_x, mean_y, last_x, last_y, dead_zone)
                   THEN /\ requests' = <<>>
                        /\ UNCHANGED <<last_x, last_y>>
                   ELSE /\ requests' = <<MoveRequest(mean_x \div SubPx,
                                                     mean_y \div SubPx, ok)>>
                        /\ last_x' = IF ok THEN mean_x ELSE last_x
                        /\ last_y' = IF ok THEN mean_y ELSE last_y

\* MouseController.move_to_gaze(gaze_x, gaze_y), called on its own
MoveToGaze(gaze_x, gaze_y, ok) ==
    /\ MoveTo(gaze_x, gaze_y, ok)
    /\ call' = [op |-> "move_to_gaze", gaze |-> <<gaze_x, gaze_y>>, frame |-> FALSE,
                 raised |-> Escaping(requests')]
    /\ UNCHANGED <<now, blinkVars, blinkObs, calVars, calObs, storeVars>>
    /\ UNCHANGED <<trackerVars, appVars, pureVars>>

\* MouseController.click(button); ok tells whether pyautogui.click returns or
\* raises; what the call does to the controller
ClickButton(button, ok) ==
    /\ requests' = ClickRequests(enabled, button, ok)
    /\ call' = [op |-> "click", gaze |-> <<>>, frame |-> FALSE,
                 raised |-> Escaping(requests')]
    /\ mscen' = IF mscen = "first" THEN "off" ELSE mscen
    /\ UNCHANGED mouseVars

\* MouseController.click(button), called on its own
Click(button, ok) ==
    /\ ClickButton(button, ok)
    /\ UNCHANGED <<now, blinkVars, blinkObs, calVars, calObs, storeVars>>
    /\ UNCHANGED <<trackerVars, appVars, pureVars>>

\* MouseController.double_click(); ok tells whether pyautogui.doubleClick
\* returns or raises; what the call does to the controller
DoubleClickButton(ok) ==
    /\ requests' = IF ~enabled THEN <<>> ELSE <<DoubleClickRequest(ok)>>
    /\ call' = [op |-> "double_click", gaze |-> <<>>, frame |-> FALSE,
                 raised |-> Escaping(requests')]
    /\ mscen' = IF mscen = "first" THEN "off" ELSE mscen
    /\ UNCHANGED mouseVars

\* MouseController.double_click(), called on its own
DoubleClick(ok) ==
    /\ DoubleClickButton(ok)
    /\ UNCHANGED <<now, blinkVars, blinkObs, calVars, calObs, storeVars>>
    /\ UNCHANGED <<trackerVars, appVars, pureVars>>

\* deque(buffer, maxlen=n): the last n entries
DequeResizeKeep(buf, n) == buf
DequeResize(buf, n) ==
    IF Len(buf) > n THEN SubSeq(buf, Len(buf) - n + 1, Len(buf)) ELSE buf

\* MouseController.update_settings(sensitivity, dead_zone, acceleration_curve,
\* smoothing_samples)
UpdateSettings(sens, dz, curve, n) ==
    /\ sensitivity' = sens
    /\ dead_zone' = dz
    /\ acceleration_curve' = curve
    /\ smoothing_samples' = n
    /\ x_buffer' = DequeResize(x_buffer, n)
    /\ y_buffer' = DequeResize(y_buffer, n)
    /\ call' = [op |-> "update_settings", gaze |-> <<>>, frame |-> FALSE, raised |-> {}]
    /\ requests' = <<>>
    /\ UNCHANGED <<enabled, last_x, last_y, mscen>>
    /\ UNCHANGED <<now, blinkVars, blinkObs, calVars, calObs, storeVars>>
    /\ UNCHANGED <<trackerVars, appVars, pureVars>>

SetEnabledCall == \E e \in BOOLEAN : SetEnabled(e)
MoveToGazeCall == \E gaze \in MouseGazes, ok \in BOOLEAN : MoveToGaze(gaze[1], gaze[2], ok)
ClickCall == \E button \in Buttons, ok \in BOOLEAN : Click(button, ok)
DoubleClickCall == \E ok \in BOOLEAN : DoubleClick(ok)

\* sensitivities given to update_settings: negative, the default range, large
SettingSensitivities == {0 - 2, 1, 5}
\* gaze positions (hundredths) given to a controller whose settings change
SettingGazes == {<<60, 50>>, <<100, 0>>}

UpdateSettingsCall ==
    \E sens \in SettingSensitivities, curve \in Curves, n \in 1..MaxSmoothing :
        UpdateSettings(sens, 0, curve, n)
SettingsMove == \E gaze \in SettingGazes : MoveToGaze(gaze[1], gaze[2], TRUE)

SettingsNext ==
    \/ UpdateSettingsCall
    \/ SettingsMove
    \/ SetEnabledCall

\* C38: every move requested from pyautogui targets a pixel of the screen,
\* whatever the gaze, the sensitivity, the curve and the buffered history, and
\* neither smoothing buffer holds more than smoothing_samples entries.
C38_MovesInsideBuffersBounded ==
    /\ \A i \in 1..Len(requests) :
           requests[i].op = "moveTo" =>
               /\ requests[i].x \in 0..(ScreenWidth - 1)
               /\ requests[i].y \in 0..(ScreenHeight - 1)
    /\ Len(x_buffer) <= smoothing_samples
    /\ Len(y_buffer) <= smoothing_samples

\* update_settings has shortened a buffer of two different targets to one
C38_Witness ==
    /\ call.op = "update_settings"
    /\ smoothing_samples = 1
    /\ Len(x_buffer) = 1
    /\ last_x # None
    /\ last_x # x_buffer[1]

\* a move to the right-hand edge of the screen under sensitivity 5
C38_WitnessEdge ==
    /\ sensitivity = 5
    /\ requests # <<>>
    /\ requests[1].op = "moveTo"
    /\ requests[1].x = ScreenWidth - 1
    /\ requests[1].y = 0
    /\ Len(x_buffer) = MaxSmoothing

\* =============================================================== EyeTracker
\* A position of the tracker is an integer number of 1/PosUnit of the
\* normalised range (0.5 -> 5000); a raw nose coordinate, as MediaPipe gives
\* it, is in hundredths.
PosUnit == 100 * 100

\* raw nose positions (landmark 1) of the frames with a face: inside the base
\* region, and outside it on the edge of the camera frame
Noses == {<<45, 55>>, <<100, 0>>}
\* values set_sensitivity is called with
SensitivityValues == {0, 10}
\* rectangles set_calibration_bounds is called with, in hundredths:
\* <<min_x, max_x, min_y, max_y>>; this one is empty along x
Regions == {<<50, 50, 40, 60>>}

\* process(): (False, None)
NoGazeData == [position |-> <<>>, nose |-> <<>>]

\* _calculate_position(): sum(history) / len(history), raw hundredths in,
\* 1/PosUnit out
HistoryMean(history) == (SumSeq(history) * (PosUnit \div 100)) \div Len(history)

\* _map_range(value, min_val, max_val)
MapRange(value, min_val, max_val) ==
    IF max_val <= min_val THEN PosUnit \div 2
    ELSE ((value - min_val) * PosUnit) \div (max_val - min_val)

\* _calculate_position(): max(0.0, min(1.0, screen_x))
Clamp01Off(v) == v
Clamp01(v) == IF v > PosUnit THEN PosUnit ELSE IF v < 0 THEN 0 ELSE v

\* _calculate_position(): self._smooth_x += (screen_x - self._smooth_x) * factor
Smoothed(smooth, screen) == smooth + ((screen - smooth) * SmoothFactor) \div 100

\* EyeTracker.__init__()
TrackerInit ==
    /\ min_x = BaseMin * (PosUnit \div 100)
    /\ max_x = BaseMax * (PosUnit \div 100)
    /\ min_y = BaseMin * (PosUnit \div 100)
    /\ max_y = BaseMax * (PosUnit \div 100)
    /\ tracker_sensitivity = 1
    /\ smooth_x = PosUnit \div 2
    /\ smooth_y = PosUnit \div 2
    /\ history_x = <<>>
    /\ history_y = <<>>
    /\ gaze_data = NoGazeData
    /\ tracked = 0
    /\ settings = 0

\* EyeTracker.process(frame), what it does to the tracker: face tells whether
\* MediaPipe finds a face in the frame, nose is its landmark 1
ProcessFrame(face, nose) ==
    /\ UNCHANGED <<min_x, max_x, min_y, max_y, tracker_sensitivity, settings>>
    /\ IF ~face
       THEN /\ gaze_data' = NoGazeData
            /\ UNCHANGED <<smooth_x, smooth_y, history_x, history_y, tracked>>
       ELSE LET hx == DequeAppend(history_x, nose[1], HistorySize)
                hy == DequeAppend(history_y, nose[2], HistorySize)
                avg_x == HistoryMean(hx)
                avg_y == HistoryMean(hy)
                screen_x == Clamp01(MapRange(avg_x, min_x, max_x))
                screen_y == Clamp01(MapRange(avg_y, min_y, max_y))
            IN  /\ tracked < MaxTracked
                /\ tracked' = tracked + 1
                /\ history_x' = hx
                /\ history_y' = hy
                /\ smooth_x' = Smoothed(smooth_x, screen_x)
                /\ smooth_y' = Smoothed(smooth_y, screen_y)
                /\ gaze_data' = [position |-> <<smooth_x', smooth_y'>>,
                                 nose |-> <<avg_x, avg_y>>]

\* EyeTracker.process(frame), called on its own
Process(face, nose) ==
    /\ ProcessFrame(face, nose)
    /\ UNCHANGED <<now, blinkVars, blinkObs, calVars, calObs, storeVars,
                   mouseVars, mouseObs, appVars, pureVars>>

\* EyeTracker.set_sensitivity(value), what it does to the tracker
SetTrackerSensitivity(value) ==
    LET s == Clip(value, 1, MaxSensitivity)
        base_w == (BaseMax - BaseMin) * (PosUnit \div 100)
        base_h == (BaseMax - BaseMin) * (PosUnit \div 100)
        new_w == base_w \div s
        new_h == base_h \div s
        cx == ((BaseMin + BaseMax) * (PosUnit \div 100)) \div 2
        cy == ((BaseMin + BaseMax) * (PosUnit \div 100)) \div 2
    IN  /\ tracker_sensitivity' = s
        /\ min_x' = cx - new_w \div 2
        /\ max_x' = cx + new_w \div 2
        /\ min_y' = cy - new_h \div 2
        /\ max_y' = cy + new_h \div 2

\* EyeTracker.set_sensitivity(value), called on its own
SetSensitivity(value) ==
    /\ settings < MaxSettings
    /\ settings' = settings + 1
    /\ SetTrackerSensitivity(value)
    /\ UNCHANGED <<smooth_x, smooth_y, history_x, history_y, gaze_data, tracked>>
    /\ UNCHANGED <<now, blinkVars, blinkObs, calVars, calObs, storeVars,
                   mouseVars, mouseObs, appVars, pureVars>>

\* EyeTracker.set_calibration_bounds(min_x, max_x, min_y, max_y)
SetCalibrationBounds(region) ==
    /\ settings < MaxSettings
    /\ settings' = settings + 1
    /\ min_x' = region[1] * (PosUnit \div 100)
    /\ max_x' = region[2] * (PosUnit \div 100)
    /\ min_y' = region[3] * (PosUnit \div 100)
    /\ max_y' = region[4] * (PosUnit \div 100)
    /\ UNCHANGED <<tracker_sensitivity, smooth_x, smooth_y, history_x, history_y,
                   gaze_data, tracked>>
    /\ UNCHANGED <<now, blinkVars, blinkObs, calVars, calObs, storeVars,
                   mouseVars, mouseObs, appVars, pureVars>>

\* set_sensitivity(): the bounds <<min_x, max_x, min_y, max_y>> it computes for
\* the clamped sensitivity s
SensitivityBoundsAboutOrigin(s) ==
    LET lo == (BaseMin * (PosUnit \div 100)) \div s
        hi == (BaseMax * (PosUnit \div 100)) \div s
    IN  <<lo, hi, lo, hi>>
SensitivityBounds(s) ==
    LET base_w == (BaseMax - BaseMin) * (PosUnit \div 100)
        base_h == (BaseMax - BaseMin) * (PosUnit \div 100)
        new_w == base_w \div s
        new_h == base_h \div s
        cx == ((BaseMin + BaseMax) * (PosUnit \div 100)) \div 2
        cy == ((BaseMin + BaseMax) * (PosUnit \div 100)) \div 2
    IN  <<cx - new_w \div 2, cx + new_w \div 2, cy - new_h \div 2, cy + new_h \div 2>>

\* the four bounds of the active region, in the order set_sensitivity writes
\* and _calculate_position reads them
Bounds == <<min_x, max_x, min_y, max_y>>

\* CameraWorker.update_sensitivity(value) on the control thread enters
\* set_sensitivity: _sensitivity is written and the new bounds are computed
SetSensitivityBegin(value) ==
    /\ set_pc = 0
    /\ settings < MaxSettings
    /\ settings' = settings + 1
    /\ tracker_sensitivity' = Clip(value, 1, MaxSensitivity)
    /\ set_bounds' = SensitivityBounds(tracker_sensitivity')
    /\ set_pc' = 1
    /\ UNCHANGED <<min_x, max_x, min_y, max_y, smooth_x, smooth_y, history_x,
                   history_y, gaze_data, tracked>>
    /\ UNCHANGED <<ear_in, ear_out, fit_in, fit_out, grid_in, grid_out, calc_pc, calc_read>>
    /\ UNCHANGED <<now, blinkVars, blinkObs, calVars, calObs, storeVars,
                   mouseVars, mouseObs, appVars>>

\* set_sensitivity(): the next of the writes self._min_x, self._max_x,
\* self._min_y, self._max_y
SetSensitivityWrite ==
    /\ set_pc \in 1..4
    /\ min_x' = IF set_pc = 1 THEN set_bounds[1] ELSE min_x
    /\ max_x' = IF set_pc = 2 THEN set_bounds[2] ELSE max_x
    /\ min_y' = IF set_pc = 3 THEN set_bounds[3] ELSE min_y
    /\ max_y' = IF set_pc = 4 THEN set_bounds[4] ELSE max_y
    /\ set_pc' = IF set_pc = 4 THEN 0 ELSE set_pc + 1
    /\ UNCHANGED <<tracker_sensitivity, settings, smooth_x, smooth_y, history_x,
                   history_y, gaze_data, tracked>>
    /\ UNCHANGED <<ear_in, ear_out, fit_in, fit_out, grid_in, grid_out, set_bounds,
                   calc_pc, calc_read>>
    /\ UNCHANGED <<now, blinkVars, blinkObs, calVars, calObs, storeVars,
                   mouseVars, mouseObs, appVars>>

\* _calculate_position() on the worker thread: the nose is added to the
\* history
CalculatePositionBegin(nose) ==
    /\ calc_pc = 0
    /\ tracked < MaxComputed
    /\ tracked' = tracked + 1
    /\ history_x' = DequeAppend(history_x, nose[1], HistorySize)
    /\ history_y' = DequeAppend(history_y, nose[2], HistorySize)
    /\ calc_read' = <<>>
    /\ calc_pc' = 1
    /\ UNCHANGED <<min_x, max_x, min_y, max_y, tracker_sensitivity, settings,
                   smooth_x, smooth_y, gaze_data>>
    /\ UNCHANGED <<ear_in, ear_out, fit_in, fit_out, grid_in, grid_out, set_pc, set_bounds>>
    /\ UNCHANGED <<now, blinkVars, blinkObs, calVars, calObs, storeVars,
                   mouseVars, mouseObs, appVars>>

\* _calculate_position(): the next of the reads self._min_x, self._max_x (the
\* arguments of the first _map_range), self._min_y, self._max_y
CalculatePositionRead ==
    /\ calc_pc \in 1..4
    /\ calc_read' = Append(calc_read, Bounds[calc_pc])
    /\ calc_pc' = calc_pc + 1
    /\ UNCHANGED trackerVars
    /\ UNCHANGED <<ear_in, ear_out, fit_in, fit_out, grid_in, grid_out, set_pc, set_bounds>>
    /\ UNCHANGED <<now, blinkVars, blinkObs, calVars, calObs, storeVars,
                   mouseVars, mouseObs, appVars>>

\* _calculate_position(): map, clamp, smooth and return, from the bounds read
CalculatePositionEnd ==
    /\ calc_pc = 5
    /\ LET avg_x == HistoryMean(history_x)
           avg_y == HistoryMean(history_y)
           screen_x == Clamp01(MapRange(avg_x, calc_read[1], calc_read[2]))
           screen_y == Clamp01(MapRange(avg_y, calc_read[3], calc_read[4]))
       IN  /\ smooth_x' = Smoothed(smooth_x, screen_x)
           /\ smooth_y' = Smoothed(smooth_y, screen_y)
           /\ gaze_data' = [position |-> <<smooth_x', smooth_y'>>,
                            nose |-> <<avg_x, avg_y>>]
    /\ calc_pc' = 0
    /\ UNCHANGED <<min_x, max_x, min_y, max_y, tracker_sensitivity, settings,
                   history_x, history_y, tracked>>
    /\ UNCHANGED <<ear_in, ear_out, fit_in, fit_out, grid_in, grid_out, set_pc,
                   set_bounds, calc_read>>
    /\ UNCHANGED <<now, blinkVars, blinkObs, calVars, calObs, storeVars,
                   mouseVars, mouseObs, appVars>>

\* values update_sensitivity is called with
ThreadValues == {0, 2, 10}
SetSensitivityBeginCall == \E value \in ThreadValues : SetSensitivityBegin(value)
CalculatePositionBeginCall == \E nose \in Noses : CalculatePositionBegin(nose)

ThreadsNext ==
    \/ SetSensitivityBeginCall
    \/ SetSensitivityWrite
    \/ CalculatePositionBeginCall
    \/ CalculatePositionRead
    \/ CalculatePositionEnd

\* C40: whatever the interleaving of the writes of a set_sensitivity call with
\* the reads of a position computation, the bounds the mapper reads satisfy
\* min_x < max_x and min_y < max_y (the max <= min branch of _map_range is
\* never taken) and the emitted position is in [0,1]^2.
C40_TornBoundsStayOrdered ==
    /\ Len(calc_read) >= 2 => calc_read[1] < calc_read[2]
    /\ Len(calc_read) = 4 => calc_read[3] < calc_read[4]
    /\ gaze_data # NoGazeData =>
           /\ gaze_data.position[1] \in 0..PosUnit
           /\ gaze_data.position[2] \in 0..PosUnit

\* a position was computed from the old min_x and the new, smaller max_x while
\* the call was still writing
C40_Witness ==
    /\ calc_pc = 0
    /\ Len(calc_read) = 4
    /\ gaze_data # NoGazeData
    /\ calc_read[1] = BaseMin * (PosUnit \div 100)
    /\ calc_read[2] < BaseMax * (PosUnit \div 100)
    /\ set_pc # 0

ProcessCall == \E face \in BOOLEAN, nose \in Noses : Process(face, nose)
SetSensitivityCall == \E value \in SensitivityValues : SetSensitivity(value)
SetCalibrationBoundsCall == \E region \in Regions : SetCalibrationBounds(region)

\* =============================================================== MainWindow
\* the methods the MouseController class defines
MouseControllerMethods ==
    {"set_enabled", "is_enabled", "update_settings", "move_to_gaze", "click",
     "double_click", "reset", "get_screen_size", "get_position"}

\* a value the sensitivity slider emits: setMinimum(10), setMaximum(40)
SliderValues == {25}

NoSettings == [value |-> 0, raised |-> "none"]
NoIteration == [face |-> FALSE, emitted |-> <<>>, held |-> FALSE, resumed |-> FALSE]

\* MainWindow.__init__: the MouseController is built from config.mouse; no
\* signal is pending
AppInit ==
    /\ config_sensitivity = sensitivity
    /\ settings_ret = NoSettings
    /\ signals = <<>>
    /\ iteration = NoIteration

\* MainWindow._on_sensitivity_change(value): the config is updated and saved;
\* then self.mouse_controller.update_params is looked up, which raises
\* AttributeError for a method the class does not define and ends the handler
\* before camera_worker.update_sensitivity is reached
OnSensitivityChange(value) ==
    /\ config_sensitivity' = value
    /\ IF "update_params" \in MouseControllerMethods
       THEN /\ SetTrackerSensitivity(value)
            /\ settings_ret' = [value |-> value, raised |-> "none"]
       ELSE /\ settings_ret' = [value |-> value, raised |-> "AttributeError"]
            /\ UNCHANGED <<min_x, max_x, min_y, max_y, tracker_sensitivity>>
    /\ UNCHANGED <<smooth_x, smooth_y, history_x, history_y, gaze_data, tracked,
                   settings, signals, iteration>>
    /\ UNCHANGED <<now, blinkVars, blinkObs, calVars, calObs, storeVars,
                   mouseVars, mouseObs, pureVars>>

OnSensitivityChangeCall == \E value \in SliderValues : OnSensitivityChange(value)

\* the calibration overlay is shown by _start_calibration right after
\* calibrator.start() and closes itself in the handler that sees the session
\* end (update_calibration on done, cancel)
overlay_visible == is_active

\* MainWindow._on_frame(frame, face_found, gaze_data, ear); gaze is
\* gaze_data.position or NoGaze, d the time since the previous clock reading,
\* ok and outcome what pyautogui.moveTo and the file system do if called; what
\* the handler does to everything but the signal queue.  A branch that does not
\* read the clock leaves the program state alone while the time d passes.
HandleFrame(face_found, gaze, d, ok, outcome) ==
    /\ UNCHANGED <<blinkVars, blinkObs, trackerVars, config_sensitivity, settings_ret,
                   pureVars>>
    /\ IF gaze # NoGaze /\ face_found /\ overlay_visible
       THEN /\ UpdateSession(gaze, d)
            /\ IF update_ret'.completed
               THEN SaveTo(transform', collected_points', outcome)
               ELSE UNCHANGED <<disk, save_ret>>
            /\ UNCHANGED <<load_ret, gaze_ret, mouseVars, mouseObs>>
       ELSE /\ now + d <= MaxCalTime
            /\ now' = now + d
            /\ UNCHANGED <<calVars, calObs, storeVars>>
            /\ IF gaze # NoGaze /\ face_found /\ enabled
               THEN /\ MoveTo(gaze[1], gaze[2], ok)
                    /\ call' = [op |-> "move_to_gaze", gaze |-> gaze, frame |-> TRUE,
                                 raised |-> Escaping(requests')]
               ELSE UNCHANGED <<mouseVars, mouseObs>>

\* MainWindow._on_frame, called on its own
OnFrame(face_found, gaze, d, ok, outcome) ==
    /\ HandleFrame(face_found, gaze, d, ok, outcome)
    /\ UNCHANGED <<signals, iteration>>

\* frames that arrive while no overlay is shown: neither the clock nor the
\* file system is consulted
OnFrameCall ==
    \E face_found \in BOOLEAN, gaze \in MouseGazes \cup {NoGaze}, ok \in BOOLEAN :
        OnFrame(face_found, gaze, 0, ok, "ok")

\* MainWindow._on_blink(blink_type); ok tells whether pyautogui returns or
\* raises if called; what the handler does to everything but the signal queue
HandleBlinkAlwaysLeft(blink_type, ok) ==
    /\ UNCHANGED <<now, blinkVars, blinkObs, calVars, calObs, storeVars, trackerVars,
                   config_sensitivity, settings_ret, pureVars>>
    /\ IF ~enabled \/ blink_type = "NONE"
       THEN UNCHANGED <<mouseVars, mouseObs>>
       ELSE ClickButton("left", ok)
HandleBlink(blink_type, ok) ==
    /\ UNCHANGED <<now, blinkVars, blinkObs, calVars, calObs, storeVars, trackerVars,
                   config_sensitivity, settings_ret, pureVars>>
    /\ IF ~enabled \/ blink_type = "NONE"
       THEN UNCHANGED <<mouseVars, mouseObs>>
       ELSE IF blink_type = "LEFT" THEN ClickButton("left", ok)
       ELSE IF blink_type = "RIGHT" THEN ClickButton("right", ok)
       ELSE DoubleClickButton(ok)

\* MainWindow._toggle_mouse(): the button and the hotkey
ToggleMouse == SetEnabled(~enabled)

\* MainWindow._start_calibration(): _stop_mouse(), calibrator.start(), the
\* overlay is shown; d is the time since the previous clock reading
StartCalibration(d) ==
    /\ SetEnabledTo(FALSE)
    /\ StartSession(d)
    /\ UNCHANGED <<blinkVars, blinkObs, trackerVars, appVars, pureVars>>

\* CalibrationOverlay.cancel(), on the Escape key
Cancel ==
    /\ overlay_visible
    /\ Stop

\* the frames the MainWindow is handed while it can show the overlay
OverlayFrame ==
    \E face_found \in BOOLEAN, gaze \in Gazes, d \in Dts :
        OnFrame(face_found, gaze, d, TRUE, "ok")

OverlayNext ==
    \/ \E d \in Dts : StartCalibration(d)
    \/ OverlayFrame
    \/ Cancel

\* C22: while a session is active, handling a frame without a face updates the
\* calibrator with no gaze: the quality becomes NO_GAZE, the hold time stays,
\* and the calibrator's last update time becomes the time of that frame, so
\* that the time without a face is in no later dt.
C22_DropoutReachesCalibrator ==
    [][(/\ is_active
        /\ current_index < Len(target_points)
        /\ \E d \in Dts : OnFrame(FALSE, NoGaze, d, TRUE, "ok"))
       => /\ gaze_quality' = "NO_GAZE"
          /\ on_target_time' = on_target_time
          /\ last_update_time' = now']_vars

\* ============================================================= CameraWorker
\* The worker thread emits blink_detected and frame_ready; Qt queues them for
\* the MainWindow's thread, which handles them one at a time in the order of
\* emission.  A gaze position travels in hundredths, the unit the handlers'
\* callees are modelled in.
WorkerNoses == {<<100, 0>>}
\* a left wink and two open eyes
WinkEars == {<<EarShut, EarOpen>>, <<EarOpen, EarOpen>>}

BlinkDetected(blink_type) ==
    [signal |-> "blink_detected", blink_type |-> blink_type, face_found |-> TRUE,
     gaze |-> NoGaze]
FrameReadyStale(face_found, data) ==
    [signal |-> "frame_ready", blink_type |-> "NONE", face_found |-> TRUE,
     gaze |-> <<50, 50>>]
FrameReady(face_found, data) ==
    [signal |-> "frame_ready", blink_type |-> "NONE", face_found |-> face_found,
     gaze |-> IF data = NoGazeData THEN NoGaze
              ELSE <<data.position[1] \div (PosUnit \div 100),
                     data.position[2] \div (PosUnit \div 100)>>]

\* a blink is in progress: an eye has been seen closed and the event that its
\* reopening gives has not been returned yet
BlinkInProgress ==
    \/ left_closed_count > 0 \/ left_was_closed
    \/ right_closed_count > 0 \/ right_was_closed

\* one iteration of the loop of CameraWorker.run on a frame the camera
\* delivered: face tells whether MediaPipe finds a face in it, nose is the nose
\* tip, ears the two values _calculate_ear gives, d the time the iteration takes
WorkerIteration(face, nose, ears, d) ==
    /\ Len(signals) + 2 <= MaxQueue
    /\ ProcessFrame(face, nose)
    /\ IF face /\ gaze_data' # NoGazeData
       THEN /\ DetectFrame(ears[1], ears[2], d)
            /\ signals' = signals
                            \o (IF blink' # NoBlink
                                THEN <<BlinkDetected(blink'.blink_type)>> ELSE <<>>)
                            \o <<FrameReady(face, gaze_data')>>
            /\ iteration' = [face |-> TRUE,
                              emitted |-> IF blink' # NoBlink
                                          THEN <<"blink_detected", "frame_ready">>
                                          ELSE <<"frame_ready">>,
                              held |-> FALSE,
                              resumed |-> ~iteration.face /\ iteration.held]
       ELSE /\ now + d <= MaxTime
            /\ now' = now + d
            /\ UNCHANGED <<blinkVars, blinkObs>>
            /\ signals' = Append(signals, FrameReady(face, gaze_data'))
            /\ iteration' = [face |-> FALSE,
                              emitted |-> <<"frame_ready">>,
                              held |-> BlinkInProgress \/ iteration.held,
                              resumed |-> FALSE]
    /\ UNCHANGED <<calVars, calObs, storeVars, mouseVars, mouseObs,
                   config_sensitivity, settings_ret, pureVars>>

WorkerIterationCall ==
    \E face \in BOOLEAN, nose \in WorkerNoses, ears \in WinkEars, d \in Dts :
        WorkerIteration(face, nose, ears, d)

\* the MainWindow's thread takes the oldest queued signal and runs its slot
Deliver ==
    /\ signals # <<>>
    /\ signals' = Tail(signals)
    /\ UNCHANGED iteration
    /\ IF Head(signals).signal = "blink_detected"
       THEN HandleBlink(Head(signals).blink_type, TRUE)
       ELSE HandleFrame(Head(signals).face_found, Head(signals).gaze, 0, TRUE, "ok")

WorkerNext ==
    \/ WorkerIterationCall
    \/ Deliver
    \/ ToggleMouse

\* a left wink, a right wink and two open eyes
BothWinkEars == WinkEars \cup {<<EarOpen, EarShut>>}
WorkerWinkCall ==
    \E nose \in WorkerNoses, ears \in BothWinkEars, d \in Dts :
        WorkerIteration(TRUE, nose, ears, d)

EventsNext ==
    \/ WorkerWinkCall
    \/ Deliver
    \/ ToggleMouse

\* the request _on_blink makes for an event while the controller is enabled
ActuationOf(blink_type) ==
    IF blink_type = "LEFT" THEN ClickRequest("left", TRUE)
    ELSE IF blink_type = "RIGHT" THEN ClickRequest("right", TRUE)
    ELSE DoubleClickRequest(TRUE)

\* C31: a blink event the worker emitted is taken from the queue by the one
\* step that handles it, and that step makes one request to pyautogui (a left
\* click for LEFT, a right click for RIGHT, a double click for BOTH) when the
\* controller is enabled and none when it is disabled; no other step makes a
\* click or double-click request.
C31_OneActuationPerEvent ==
    [][/\ (/\ signals # <<>>
           /\ Head(signals).signal = "blink_detected"
           /\ signals' = Tail(signals))
          => IF enabled
             THEN /\ requests' = <<ActuationOf(Head(signals).blink_type)>>
                  /\ call'.op \in {"click", "double_click"}
             ELSE UNCHANGED <<mouseVars, mouseObs>>
       /\ (/\ <<requests, call>>' # <<requests, call>>
           /\ \E i \in 1..Len(requests') : requests'[i].op \in {"click", "doubleClick"})
          => /\ signals # <<>>
             /\ Head(signals).signal = "blink_detected"
             /\ signals' = Tail(signals)]_vars

\* a RIGHT event has been handled by one right click
C31_Witness ==
    /\ requests = <<ClickRequest("right", TRUE)>>
    /\ call.op = "click"
    /\ blink.blink_type = "RIGHT"
    /\ \A i \in 1..Len(signals) : signals[i].signal = "frame_ready"

\* a LEFT event has been handled by one left click
C31_WitnessLeft ==
    /\ requests = <<ClickRequest("left", TRUE)>>
    /\ call.op = "click"
    /\ blink.blink_type = "LEFT"

\* calibration next to the worker's signals and the toggle hotkey
GuardNext ==
    \/ \E d \in Dts : StartCalibration(d)
    \/ Cancel
    \/ ToggleMouse
    \/ WorkerIterationCall
    \/ Deliver

\* C37: while the calibration overlay is shown, from _start_calibration until
\* the session ends by completion or cancel, no request to move the cursor, to
\* click or to double-click is made to pyautogui.
C37_NoActuationDuringCalibration ==
    overlay_visible => requests = <<>>

MouseNext ==
    \/ SetEnabledCall
    \/ MoveToGazeCall
    \/ ClickCall
    \/ DoubleClickCall
    \/ OnFrameCall

\* ------------------------------------- MouseController, MainWindow: claims
\* C16: while the controller is disabled, a move_to_gaze, click or
\* double_click call makes no request to pyautogui and leaves both smoothing
\* buffers and the last position unchanged.
C16_DisabledDoesNothing ==
    [][(~enabled /\ call'.op \in {"move_to_gaze", "click", "double_click"}) =>
          /\ requests' = <<>>
          /\ ~enabled'
          /\ UNCHANGED <<x_buffer, y_buffer, last_x, last_y>>]_vars

C16_Witness ==
    /\ ~enabled
    /\ call.op = "move_to_gaze"
    /\ requests = <<>>
    /\ x_buffer # <<>>
    /\ last_x # None

\* C17: after moves, set_enabled(False) and set_enabled(True) both buffers are
\* empty and the last position is unset; the first move_to_gaze after that
\* makes one move request, for the shaped, clamped position of its own gaze
\* sample alone.
C17_ReenableForgetsHistory ==
    /\ mscen = "reenabled" =>
          /\ enabled
          /\ x_buffer = <<>> /\ y_buffer = <<>>
          /\ last_x = None /\ last_y = None
    /\ mscen = "first" =>
          LET tx == Target(call.gaze[1], sensitivity, acceleration_curve, ScreenWidth)
              ty == Target(call.gaze[2], sensitivity, acceleration_curve, ScreenHeight)
          IN  /\ call.op = "move_to_gaze"
              /\ x_buffer = <<tx>> /\ y_buffer = <<ty>>
              /\ Len(requests) = 1
              /\ requests[1].op = "moveTo"
              /\ requests[1].x = tx \div SubPx
              /\ requests[1].y = ty \div SubPx

C17_Witness ==
    /\ mscen = "first"
    /\ dead_zone > 0
    /\ smoothing_samples > 1
    /\ requests # <<>>
    /\ requests[1].ok
    /\ last_x = x_buffer[1]

\* C18 as claimed: in an enabled controller with a last position, a
\* move_to_gaze whose smoothed target lies less than dead_zone (normalised) from
\* the last position makes no request and keeps the last position; otherwise it
\* makes exactly one move request and records the smoothed target as the last
\* position.
C18_DeadZoneOrMoveRecorded ==
    [][(enabled /\ last_x # None /\ last_y # None /\ call'.op = "move_to_gaze") =>
          LET nx == Mean(x_buffer') - last_x
              ny == ((Mean(y_buffer') - last_y) * ScreenWidth) \div ScreenHeight
              r == (dead_zone * SubPx * ScreenWidth) \div 1000
          IN  IF nx * nx + ny * ny < r * r
              THEN requests' = <<>> /\ UNCHANGED <<last_x, last_y>>
              ELSE /\ Len(requests') = 1
                   /\ requests'[1].op = "moveTo"
                   /\ last_x' = Mean(x_buffer')
                   /\ last_y' = Mean(y_buffer')]_vars

\* C18 as amended: ... otherwise it makes exactly one move request, for the
\* truncated smoothed target, and records the smoothed target as the last
\* position if pyautogui.moveTo returns; if it raises, the last position stays.
C18_DeadZoneOrMove ==
    [][(enabled /\ last_x # None /\ last_y # None /\ call'.op = "move_to_gaze") =>
          LET nx == Mean(x_buffer') - last_x
              ny == ((Mean(y_buffer') - last_y) * ScreenWidth) \div ScreenHeight
              r == (dead_zone * SubPx * ScreenWidth) \div 1000
          IN  IF nx * nx + ny * ny < r * r
              THEN requests' = <<>> /\ UNCHANGED <<last_x, last_y>>
              ELSE /\ Len(requests') = 1
                   /\ requests'[1].op = "moveTo"
                   /\ requests'[1].x = Mean(x_buffer') \div SubPx
                   /\ requests'[1].y = Mean(y_buffer') \div SubPx
                   /\ IF requests'[1].ok
                      THEN last_x' = Mean(x_buffer') /\ last_y' = Mean(y_buffer')
                      ELSE UNCHANGED <<last_x, last_y>>]_vars

C18_Witness ==
    /\ enabled
    /\ dead_zone > 0
    /\ call.op = "move_to_gaze"
    /\ requests = <<>>
    /\ last_x # None
    /\ Mean(x_buffer) # last_x

C18_WitnessMoved ==
    /\ enabled
    /\ call.op = "move_to_gaze"
    /\ Len(x_buffer) = 2
    /\ requests # <<>>
    /\ requests[1].ok
    /\ last_x = Mean(x_buffer)
    /\ x_buffer[1] # x_buffer[2]

\* C19: with sensitivity 1, acceleration_curve 1 and dead_zone 0, the first
\* move_to_gaze(0.5, 0.5) of a freshly enabled controller requests a move to
\* (screen_width / 2, screen_height / 2), truncated.
C19_CentreMapsToCentre ==
    [][(/\ enabled /\ sensitivity = 1 /\ acceleration_curve = 1 /\ dead_zone = 0
        /\ x_buffer = <<>> /\ y_buffer = <<>> /\ last_x = None /\ last_y = None
        /\ call'.op = "move_to_gaze" /\ call'.gaze = <<50, 50>>) =>
          /\ Len(requests') = 1
          /\ requests'[1].op = "moveTo"
          /\ requests'[1].x = ScreenWidth \div 2
          /\ requests'[1].y = ScreenHeight \div 2]_vars

C19_Witness ==
    /\ enabled /\ sensitivity = 1 /\ acceleration_curve = 1 /\ dead_zone = 0
    /\ call.op = "move_to_gaze" /\ call.gaze = <<50, 50>>
    /\ Len(x_buffer) = 1
    /\ requests = <<MoveRequest(ScreenWidth \div 2, ScreenHeight \div 2, TRUE)>>
    /\ last_x = (ScreenWidth \div 2) * SubPx

\* C20: with mouse control enabled and no calibration in progress, the gaze of
\* a frame passes through the calibrator's transform before it drives the
\* controller: with a fitted transform, neutral shaping (sensitivity 1,
\* acceleration_curve 1) and a single sample in the buffers, the requested
\* position is the pixel transform_gaze gives for that gaze.
C20_GazePassesTransform ==
    (/\ call.op = "move_to_gaze" /\ call.frame
     /\ is_calibrated /\ Len(transform.m) = 4
     /\ sensitivity = 1 /\ acceleration_curve = 1
     /\ Len(x_buffer) = 1 /\ requests # <<>>) =>
        <<requests[1].x, requests[1].y>> = TransformFitted(transform.m, call.gaze)

\* C25: when pyautogui raises in moveTo, click or doubleClick, the method that
\* made the request returns normally: no exception leaves it, the request was
\* made once and is not repeated, and after a failed moveTo the last position
\* is the one recorded before the call.
C25_FailuresSwallowed ==
    [][(/\ call'.op \in {"move_to_gaze", "click", "double_click"}
        /\ \E i \in DOMAIN requests' : ~requests'[i].ok)
       => /\ call'.raised = {}
          /\ Len(requests') = 1
          /\ UNCHANGED <<last_x, last_y, enabled>>]_vars

\* a move has been recorded and the next move request, to another pixel, raised
C25_Witness ==
    /\ call.op = "move_to_gaze"
    /\ Len(requests) = 1
    /\ ~requests[1].ok
    /\ last_x # None
    /\ requests[1].x # last_x \div SubPx

\* a click request raised
C25_WitnessClick ==
    /\ call.op = "click"
    /\ requests = <<ClickRequest("right", FALSE)>>

\* a double-click request raised
C25_WitnessDoubleClick ==
    /\ call.op = "double_click"
    /\ requests = <<DoubleClickRequest(FALSE)>>

\* ------------------------------------------ EyeTracker, settings: claims
\* C26: the normalised position of every GazeData the tracker produces lies in
\* [0,1] x [0,1], for every sequence of raw nose positions and every active
\* region; so does the smoothing state it is read from.
C26_PositionInUnitSquare ==
    /\ smooth_x \in 0..PosUnit
    /\ smooth_y \in 0..PosUnit
    /\ gaze_data # NoGazeData =>
          /\ gaze_data.position = <<smooth_x, smooth_y>>
          /\ gaze_data.position[1] \in 0..PosUnit
          /\ gaze_data.position[2] \in 0..PosUnit

\* the averaged nose lies right of and above the active region, which remaps
\* it to more than 1 and less than 0 before the clamp
C26_Witness ==
    /\ gaze_data # NoGazeData
    /\ tracked = MaxTracked
    /\ max_x > min_x /\ max_y > min_y
    /\ gaze_data.nose[1] > max_x
    /\ gaze_data.nose[2] < min_y
    /\ gaze_data.position[1] > (PosUnit * 7) \div 10
    /\ gaze_data.position[2] < (PosUnit * 3) \div 10

\* an active region that is empty along x remaps every nose to the centre
C26_WitnessEmptyRegion ==
    /\ gaze_data # NoGazeData
    /\ max_x <= min_x
    /\ gaze_data.nose[1] > max_x
    /\ gaze_data.position[1] = PosUnit \div 2
    /\ gaze_data.position[2] # PosUnit \div 2

\* C23: a sensitivity change made through the settings slider is applied to
\* the MouseController and to the EyeTracker's active region, and the handler
\* returns without raising.
C23_SensitivityApplied ==
    settings_ret # NoSettings =>
        /\ settings_ret.raised = "none"
        /\ sensitivity = settings_ret.value
        /\ tracker_sensitivity = Clip(settings_ret.value, 1, MaxSensitivity)

\* ------------------------------------------------- CameraWorker: claims
\* C21: a worker iteration on a frame without a face leaves every field of the
\* BlinkDetector (counters, latches, EAR buffers, cooldown timestamp) and the
\* EyeTracker's smoothed position and nose history as they were, emits no
\* blink_detected and exactly one frame_ready that carries no face and no gaze,
\* and makes no call into the MouseController; the slot that later handles that
\* frame_ready makes no call into the MouseController either.
C21_DropoutFreezes ==
    [][/\ \/ /\ UNCHANGED <<blinkVars, smooth_x, smooth_y, history_x, history_y>>
             /\ UNCHANGED <<mouseVars, mouseObs>>
             /\ signals' = Append(signals, [signal |-> "frame_ready",
                                             blink_type |-> "NONE",
                                             face_found |-> FALSE,
                                             gaze |-> NoGaze])
          \/ ~(\E d \in Dts : WorkerIteration(FALSE, <<>>, <<>>, d))
       /\ \/ UNCHANGED <<mouseVars, mouseObs, blinkVars, trackerVars>>
          \/ ~(/\ signals # <<>>
               /\ Head(signals).signal = "frame_ready"
               /\ ~Head(signals).face_found
               /\ Deliver)]_vars

\* a left wink was in progress when a frame without a face came, and the next
\* frame, with the eye open again, gave the LEFT event
C21_Witness ==
    /\ iteration.face
    /\ iteration.resumed
    /\ iteration.emitted = <<"blink_detected", "frame_ready">>
    /\ blink.blink_type = "LEFT"
    /\ left_closed_count = 0

\* the controller is enabled and has moved the cursor; the frame_ready of a
\* later frame without a face has been handled and no call was made
C21_WitnessNoMove ==
    /\ enabled
    /\ ~iteration.face
    /\ signals = <<>>
    /\ call.op = "move_to_gaze"
    /\ requests # <<>>

\* ============================================ BlinkDetector._calculate_ear
\* Landmark coordinates are integers in units of 1/PxUnit pixel, distances are
\* floored square roots in the same unit, an EAR is in hundredths.
PxUnit == 2 * 5
\* what numpy's float64 division yields for x / 0 and for 0 / 0 (a warning, no
\* exception); a true EAR is never negative
Inf == 0 - 3
NaN == 0 - 2

EyeWidths == {0, 5, 9, 10, 300}
EyeOpenings == {0, 20, 100}
EyeTilts == {0, 4}
\* seven points around an eye whose corners are width apart across and tilt
\* apart down, the lids opening above and below the line between the corners;
\* the seventh is a point the function never reads
EyePoints(width, opening, tilt) ==
    << <<1000, 1000>>,
       <<1000 + width \div 3, 1000 - opening>>,
       <<1000 + (2 * width) \div 3, 1000 + tilt - opening>>,
       <<1000 + width, 1000 + tilt>>,
       <<1000 + (2 * width) \div 3, 1000 + tilt + opening>>,
       <<1000 + width \div 3, 1000 + opening>>,
       <<1000, 1000>> >>
\* the landmark lists handed to _calculate_ear: 0 to 7 points
EyeShapes ==
    {SubSeq(EyePoints(w, o, t), 1, n) :
        w \in EyeWidths, o \in EyeOpenings, t \in EyeTilts, n \in 0..7}

NormSq(p, q) == (p[1] - q[1]) * (p[1] - q[1]) + (p[2] - q[2]) * (p[2] - q[2])
\* np.linalg.norm(p - q), for points of EyeShapes (none are 400 units apart)
Norm(p, q) ==
    CHOOSE r \in 0..400 : r * r <= NormSq(p, q) /\ NormSq(p, q) < (r + 1) * (r + 1)

\* the two early returns: len(landmarks) < 6, h < 1
IsDegenerateCount(landmarks) == Len(landmarks) < 6
IsDegenerate(landmarks) ==
    \/ Len(landmarks) < 6
    \/ NormSq(landmarks[1], landmarks[4]) < PxUnit * PxUnit

\* (v1 + v2) / (2.0 * h) on numpy float64 values
EarRatio(v, h) ==
    IF h = 0 THEN (IF v = 0 THEN NaN ELSE Inf)
    ELSE (v * 100) \div (2 * h)

\* BlinkDetector._calculate_ear(landmarks)
CalculateEar(landmarks) ==
    IF IsDegenerate(landmarks) THEN NeutralEar
    ELSE EarRatio(Norm(landmarks[2], landmarks[6]) + Norm(landmarks[3], landmarks[5]),
                  Norm(landmarks[1], landmarks[4]))

\* _calculate_ear applied to the landmark list drawn at the start
CalculateEarCall ==
    /\ ear_out = None
    /\ ear_in \in EyeShapes
    /\ ear_out' = CalculateEar(ear_in)
    /\ UNCHANGED <<ear_in, fit_in, fit_out, grid_in, grid_out, threadVars>>
    /\ UNCHANGED <<now, blinkVars, blinkObs, calVars, calObs, storeVars, mouseVars,
                   mouseObs, trackerVars, appVars>>

\* C27: _calculate_ear returns a finite, non-negative number for every landmark
\* list; for fewer than 6 points, or 6 points whose corners are less than one
\* pixel apart, it returns the neutral 0.5, which no threshold in use counts as
\* closed.
C27_DegenerateEarIsNeutral ==
    ear_out # None =>
        /\ ear_out \notin {NaN, Inf}
        /\ ear_out >= 0
        /\ (\/ Len(ear_in) < 6
            \/ (ear_in[1][1] - ear_in[4][1]) ^ 2 + (ear_in[1][2] - ear_in[4][2]) ^ 2
                   < PxUnit ^ 2)
              => /\ ear_out = NeutralEar
                 /\ \A th \in EarThresholds : ~IsClosed(<<NeutralEar, 1>>, th)

\* six points of a shut eye whose corners are apart, but by less than a pixel
C27_Witness ==
    /\ ear_out = NeutralEar
    /\ Len(ear_in) = 6
    /\ ear_in[1] # ear_in[4]
    /\ ear_in[2] = ear_in[6]

\* six points of an eye whose corners coincide
C27_WitnessNoWidth ==
    /\ ear_out = NeutralEar
    /\ Len(ear_in) >= 6
    /\ ear_in[1] = ear_in[4]
    /\ ear_in[2] # ear_in[6]

\* fewer than six points
C27_WitnessFewPoints ==
    /\ ear_out = NeutralEar
    /\ Len(ear_in) = 5

\* ================================================== Calibrator: fit and map
\* observed gaze coordinates of the four calibration points, in hundredths
Observed == {10, 20, 50, 90}
\* gaze points that are none of the calibration points, in hundredths
HeldOut == {<<0, 0>>, <<37, 64>>, <<50, 5>>, <<100, 100>>}
\* screen = 1000 * observed + 50, for observed in hundredths
ScaleAndShift(g) == 10 * g + 50
\* the four CalibrationPoints of a session whose averaged gaze was x0 < x1
\* across and y0 < y1 down and whose targets follow ScaleAndShift
ScaledPoints(x0, x1, y0, y1) ==
    << [screen_x |-> ScaleAndShift(x0), screen_y |-> ScaleAndShift(y0),
        gaze_x |-> <<x0, 1>>, gaze_y |-> <<y0, 1>>],
       [screen_x |-> ScaleAndShift(x1), screen_y |-> ScaleAndShift(y0),
        gaze_x |-> <<x1, 1>>, gaze_y |-> <<y0, 1>>],
       [screen_x |-> ScaleAndShift(x0), screen_y |-> ScaleAndShift(y1),
        gaze_x |-> <<x0, 1>>, gaze_y |-> <<y1, 1>>],
       [screen_x |-> ScaleAndShift(x1), screen_y |-> ScaleAndShift(y1),
        gaze_x |-> <<x1, 1>>, gaze_y |-> <<y1, 1>>] >>
Correspondences ==
    {ScaledPoints(r[1], r[2], r[3], r[4]) :
        r \in {c \in Observed \X Observed \X Observed \X Observed :
                   c[1] < c[2] /\ c[3] < c[4]}}
\* the distance below which two screen positions count as equal: 1/1024 pixel
FitTolerance == Unit \div 1024

\* _finalize() on the correspondences drawn at the start, then
\* cv2.perspectiveTransform of a held-out gaze point with the fitted matrix
FitAndMap(gaze) ==
    /\ fit_out = <<>>
    /\ Len(fit_in) = 4
    /\ LET t == FinalizeTransform(fit_in, NoTransform)
       IN  /\ Len(t.m) = 4
           /\ fit_out' = [gaze |-> gaze, pixel |-> PerspectiveTransform(t.m, gaze)]
    /\ UNCHANGED <<ear_in, ear_out, fit_in, grid_in, grid_out, threadVars>>
    /\ UNCHANGED <<now, blinkVars, blinkObs, calVars, calObs, storeVars, mouseVars,
                   mouseObs, trackerVars, appVars>>
FitAndMapCall == \E gaze \in HeldOut : FitAndMap(gaze)

C28_WitnessOutside ==
    /\ fit_out # <<>>
    /\ fit_out.gaze = <<100, 100>>
    /\ fit_in[4].gaze_x = <<50, 1>>
    /\ fit_in[4].gaze_y = <<20, 1>>

\* ========================================================== specifications
\* no function has been applied on its own
\* ------------------------------------------- Calibrator._generate_grid
MaxPointsCount == 17
\* screens (width, height), margin_percent in hundredths
GridScreens == {<<200, 100>>, <<1920, 1080>>, <<7, 5>>, <<1, 1>>}
GridMargins == {0, MarginPercent, 25, 49}
NoGrid == [done |-> FALSE, targets |-> <<>>]
GridIdle ==
    /\ grid_in = <<>> /\ grid_out = NoGrid
    /\ set_pc = 0 /\ set_bounds = <<>> /\ calc_pc = 0 /\ calc_read = <<>>

\* Calibrator(w, h, points_count, margin_percent)._target_points
GenerateGridCall ==
    /\ grid_out = NoGrid
    /\ grid_in # <<>>
    /\ grid_out' = [done |-> TRUE,
                    targets |-> GenerateGridOn(grid_in.w, grid_in.h, grid_in.mp, grid_in.pc)]
    /\ UNCHANGED <<ear_in, ear_out, fit_in, fit_out, grid_in, threadVars>>
    /\ UNCHANGED <<now, blinkVars, blinkObs, calVars, calObs, storeVars, mouseVars,
                   mouseObs, trackerVars, appVars>>

C39_WitnessNoSquare ==
    /\ grid_out.done
    /\ grid_in.pc = 12
    /\ Len(grid_out.targets) = 9

\* a points_count of 3 gives the single target at the screen centre
C39_WitnessTooFew ==
    /\ grid_out.done
    /\ grid_in.pc = 3
    /\ grid_out.targets = << <<grid_in.w \div 2, grid_in.h \div 2>> >>

PureIdle ==
    /\ ear_in = <<>>
    /\ ear_out = None
    /\ fit_in = <<>>
    /\ fit_out = <<>>
    /\ GridIdle

\* tracker, application state and functions as they are when nothing uses them
Idle == TrackerInit /\ AppInit /\ PureIdle

\* the detector alone, next to an idle calibrator
InitBlink ==
    /\ now = StartTime
    /\ BlinkInit
    /\ CalInitWith(DefaultPointsCount)
    /\ disk = MissingFile
    /\ MouseInitWith(1, 1, 0, 1)
    /\ Idle
SpecBlink == InitBlink /\ [][BlinkNext]_vars

\* the calibrator alone, next to an idle detector
InitCal ==
    /\ now = StartTime
    /\ BlinkInitWith(1, 1)
    /\ CalInit
    /\ disk = MissingFile
    /\ MouseInitWith(1, 1, 0, 1)
    /\ Idle
SpecCal == InitCal /\ [][CalNext]_vars

\* save, load and transform_gaze of the calibrator, next to an idle detector
InitStore ==
    /\ now = StartTime
    /\ BlinkInitWith(1, 1)
    /\ StoreInit
    /\ MouseInitWith(1, 1, 0, 1)
    /\ Idle
SpecStore == InitStore /\ [][StoreNext]_vars

\* every operation of the calibrator late on the explored clock, so that a
\* session started here is cut short: from a fresh calibrator with a file to
\* load, or from a session about to complete
LifeNext ==
    \/ StartCall
    \/ Stop
    \/ UpdateCall
    \/ LoadDisk
    \/ SaveCall
    \/ TransformGazeCall

InitLife ==
    /\ now = MaxCalTime - 1
    /\ BlinkInitWith(1, 1)
    /\ disk = EarlierFile
    /\ CalInitWith(4) \/ LateSession
    /\ MouseInitWith(1, 1, 0, 1)
    /\ Idle
SpecLife == InitLife /\ [][LifeNext]_vars

\* the mouse controller and the frame handler, next to an idle detector and a
\* calibrator that has completed a 4-target session
InitMouse ==
    /\ now = StartTime
    /\ BlinkInitWith(1, 1)
    /\ disk = MissingFile
    /\ CompletedSession(SessionPoints(<<11, 1>>, <<86, 1>>, <<11, 1>>, <<86, 1>>))
    /\ MouseInit
    /\ Idle
SpecMouse == InitMouse /\ [][MouseNext]_vars

\* the worker, the signal queue and the two slots, with no overlay shown
InitWorker ==
    /\ now = StartTime
    /\ BlinkInitWith(1, 1)
    /\ CalInitWith(DefaultPointsCount)
    /\ disk = MissingFile
    /\ MouseInitWith(1, 1, 0, 1)
    /\ Idle
SpecWorker == InitWorker /\ [][WorkerNext]_vars

\* the calibration overlay: start, the frames handled while it may be shown,
\* cancel
InitOverlay ==
    /\ now = StartTime
    /\ BlinkInitWith(1, 1)
    /\ CalInitWith(4)
    /\ disk = MissingFile
    /\ MouseInitWith(1, 1, 0, 1)
    /\ Idle
SpecOverlay == InitOverlay /\ [][OverlayNext]_vars

\* _calculate_ear on its own
InitEar ==
    /\ now = StartTime
    /\ BlinkInitWith(1, 1)
    /\ CalInitWith(DefaultPointsCount)
    /\ disk = MissingFile
    /\ MouseInitWith(1, 1, 0, 1)
    /\ TrackerInit
    /\ AppInit
    /\ ear_in \in EyeShapes
    /\ ear_out = None
    /\ fit_in = <<>>
    /\ fit_out = <<>>
    /\ GridIdle
EarNext == CalculateEarCall
SpecEar == InitEar /\ [][EarNext]_vars

\* _finalize and cv2.perspectiveTransform on their own
InitFit ==
    /\ now = StartTime
    /\ BlinkInitWith(1, 1)
    /\ CalInitWith(DefaultPointsCount)
    /\ disk = MissingFile
    /\ MouseInitWith(1, 1, 0, 1)
    /\ TrackerInit
    /\ AppInit
    /\ ear_in = <<>>
    /\ ear_out = None
    /\ fit_in \in Correspondences
    /\ fit_out = <<>>
    /\ GridIdle
FitNext == FitAndMapCall
SpecFit == InitFit /\ [][FitNext]_vars

\* the tracker and the settings handler, next to an idle detector, calibrator
\* and controller
TrackerNext ==
    \/ ProcessCall
    \/ SetSensitivityCall
    \/ SetCalibrationBoundsCall
    \/ OnSensitivityChangeCall

InitTracker ==
    /\ now = StartTime
    /\ BlinkInitWith(1, 1)
    /\ CalInitWith(DefaultPointsCount)
    /\ disk = MissingFile
    /\ MouseInitWith(2, 1, 0, 1)
    /\ Idle
SpecTracker == InitTracker /\ [][TrackerNext]_vars

\* the mouse controller under changing settings
InitSettings ==
    /\ now = StartTime
    /\ BlinkInitWith(1, 1)
    /\ CalInitWith(DefaultPointsCount)
    /\ disk = MissingFile
    /\ MouseInitWith(1, MaxSmoothing, 0, 1)
    /\ Idle
SpecSettings == InitSettings /\ [][SettingsNext]_vars

\* _generate_grid applied to every construction of the calibrator
InitGrid ==
    /\ now = StartTime
    /\ BlinkInitWith(1, 1)
    /\ CalInitWith(DefaultPointsCount)
    /\ disk = MissingFile
    /\ MouseInitWith(1, 1, 0, 1)
    /\ TrackerInit /\ AppInit
    /\ ear_in = <<>>
    /\ ear_out = None
    /\ fit_in = <<>>
    /\ fit_out = <<>>
    /\ \E s \in GridScreens, mp \in GridMargins, pc \in 0..MaxPointsCount :
           grid_in = [w |-> s[1], h |-> s[2], mp |-> mp, pc |-> pc]
    /\ grid_out = NoGrid
    /\ set_pc = 0 /\ set_bounds = <<>> /\ calc_pc = 0 /\ calc_read = <<>>
GridNext == GenerateGridCall
SpecGrid == InitGrid /\ [][GridNext]_vars

\* a set_sensitivity call of the control thread next to the position
\* computations of the worker thread
InitThreads ==
    /\ now = StartTime
    /\ BlinkInitWith(1, 1)
    /\ CalInitWith(DefaultPointsCount)
    /\ disk = MissingFile
    /\ MouseInitWith(1, 1, 0, 1)
    /\ Idle
SpecThreads == InitThreads /\ [][ThreadsNext]_vars

\* the running application late on the explored clock: worker, hotkeys and
\* calibration
InitGuard ==
    /\ now = MaxTime - 1
    /\ BlinkInitWith(1, 1)
    /\ CalInitWith(4)
    /\ disk = MissingFile
    /\ MouseInitWith(1, 1, 0, 1)
    /\ Idle
SpecGuard == InitGuard /\ [][GuardNext]_vars

\* the worker's blink events and their handler
InitEvents ==
    /\ now = StartTime
    /\ BlinkInitWith(1, 1)
    /\ CalInitWith(DefaultPointsCount)
    /\ disk = MissingFile
    /\ MouseInitWith(1, 1, 0, 1)
    /\ Idle
SpecEvents == InitEvents /\ [][EventsNext]_vars

Init ==
    /\ now = StartTime /\ BlinkInit /\ CalInit /\ disk \in Files /\ MouseInit
    /\ Idle
Next == BlinkNext \/ CalNext \/ StoreNext \/ MouseNext \/ TrackerNext \/ EarNext
            \/ FitNext \/ LifeNext \/ WorkerNext \/ OverlayNext \/ SettingsNext
            \/ GridNext \/ ThreadsNext \/ GuardNext
            \/ EventsNext
Spec == Init /\ [][Next]_vars

====
